---- MODULE Spec2Model ----
(***************************************************************************)
(* Hybrid retrieval engine of the compliance platform: the cache layer     *)
(* (redis_cache.py) and the hybrid query engine (vector_store.py).         *)
(*                                                                         *)
(* Conventions of the model                                                *)
(*  - Python None is the empty tuple None; an optional argument that is   *)
(*    given is the one-element tuple Some(x); a Python string held in the  *)
(*    cache is the JSON text of a value x and is written JsonDumps(x).     *)
(*  - time.time() is the integer clock `now`; only comparisons and sums of *)
(*    clock values occur in the code.                                      *)
(*  - an exception raised by a call is the field exc of what it returns.   *)
(***************************************************************************)
EXTENDS Integers, Sequences, FiniteSets, TLC

VARIABLES
    now,          \* time.time()
    nticks,       \* number of clock steps taken (bounds the run)
    redisUp,      \* whether the Redis server answers
    nflips,       \* number of backend outages / recoveries (bounds the run)
    client,       \* redis_cache._redis_client: "unset", "redis" or "mock"
    redisData,    \* the Redis server's key space: key -> [val, exp]
    mockCache,    \* MockRedisClient.cache
    mockExpiry,   \* MockRedisClient.expiry
    ncalls,       \* number of cache-layer calls made (bounds the run)
    startup,      \* history: was the server up at the first get_redis_client
    lastCall,     \* history: the last cache-layer call and what it returned
    written,      \* history: key -> the last cache_result call on that key
    tpc,          \* per thread: position inside MockRedisClient.get / set
    targ,         \* per thread: arguments of the call in progress
    tloc,         \* per thread: time read / value returned
    done,         \* history: the set calls that have completed, in order
    providerUp,   \* whether the embedding provider answers
    docOrder,     \* vector_store.documents: the ids, in insertion order
    docs,         \* vector_store.documents: id -> document
    embs,         \* vector_store.document_embeddings: id -> vector
    nwrites,      \* number of store writes made (bounds the run)
    nqueries,     \* number of queries started (bounds the run)
    qpc,          \* query_hybrid_index: position of the call in progress
    qarg,         \* its arguments [query, jurisdiction, top_k]
    qemb,         \* its local query_embedding
    qids,         \* its local doc_ids
    qi,           \* index of the loop over doc_ids
    qdoc,         \* its local doc
    qres,         \* its local results
    qret,         \* what the call returned
    qhit,         \* history: the call returned at the cache check
    qfx,          \* history: what the call has done so far
    qseen,        \* history: id -> was its embedding present when read
    qstable,      \* history: no store write since the call started
    qwrite,       \* history: the cache write the call made
    qheld,        \* history: what the cache held when the call started
    qhist,        \* history: arguments -> the last computed result, and when
    qexpect,      \* history: the result a repeat of an earlier query is due
                  \* (fallback: the earlier call ran on the zero vector)
    qlk,          \* history: the steps of the call and the locks held at each
    lpc,          \* get_latest_documents: position of the call in progress
    larg,         \* its arguments [jurisdiction, min_risk, search_query, limit]
    lids,         \* its local doc_ids
    li,           \* index of the loop over doc_ids
    lres,         \* its local results
    lret,         \* what the call returned
    lsnap,        \* history: the number of store writes when the call started
    llk,          \* history: the steps of the call and the locks held at each
    nlists,       \* number of listings started (bounds the run)
    running,      \* data_ingestion.running
    ipc,          \* data_ingestion_thread: position of each thread started
    spc,          \* start_ingestion_pipeline: position of each caller
    sret,         \* history: what each caller's last start returned, and
                  \* whether a thread was alive when it was called
    ifetched,     \* history: ids of the documents fetched by the iterations
    ianalyzed,    \* history: id -> risk score analyze_document_risk returned
    ialerts,      \* history: ids send_notification was called for
    iraised,      \* history: the threads an exception took out of the loop
    ihanded,      \* history: ids of the documents handed to update_vector_index
    nfetches,     \* number of loop iterations of the thread (bounds the run)
    sim,          \* a call of vector_similarity: its arguments and outcome
    bm,           \* a call of bm25_score: its arguments and outcome
    kc,           \* the cache keys built for two queries, a text and a document
    lab,          \* a call of get_risk_level_label next to the risk filter
    rcall,        \* history: the last call of analyze_document_risk
    acall,        \* history: the last call of analyze_compliance
    rlast,        \* history: doc_id -> the last result computed for it, and when
    nrisk,        \* number of risk analyses made (bounds the run)
    redis_client, \* redis_cache._redis_client as a reference: 0 is None
    objects,      \* the client objects created so far, by reference
    cpc,          \* per caller: position inside the cache-layer call
    ccall,        \* per caller: the call in progress
    cloc,         \* per caller: the local client and the value returned
    cpinged,      \* history: the numbers of the calls that pinged the server
    cfirst,       \* history: the reference the first call returned
    clastset,     \* history: the last cache_result that has completed
    cdown,        \* history: the server has answered no caller so far
    nclient       \* number of calls made by the callers (bounds the run)

cacheVars == <<redisUp, nflips, client, redisData, mockCache, mockExpiry>>
histVars  == <<ncalls, startup, lastCall, written>>
thrVars   == <<tpc, targ, tloc, done>>
storeVars == <<docOrder, docs, embs, nwrites>>
qLocals   == <<qpc, qarg, qemb, qids, qi, qdoc, qres, qret>>
qHistory  == <<qhit, qfx, qseen, qstable, qwrite, qheld, qhist, qexpect, qlk>>
qVars     == <<nqueries, qLocals, qHistory>>
engineVars == <<providerUp, storeVars, qVars>>
latestVars == <<lpc, larg, lids, li, lres, lret, lsnap, llk, nlists>>
ingestVars == <<running, ipc, ihanded, nfetches, spc, sret, ifetched,
                ianalyzed, ialerts, iraised>>
pureVars == <<bm, kc, lab>>
riskVars == <<rcall, acall, rlast, nrisk>>
clientVars == <<redis_client, objects, cpc, ccall, cloc, cpinged, cfirst,
                clastset, cdown, nclient>>
moreVars == <<pureVars, riskVars, clientVars>>
extVars == <<latestVars, ingestVars, sim, moreVars>>
vars == <<now, nticks, cacheVars, histVars, thrVars, engineVars, extVars>>

-----------------------------------------------------------------------------
(* Bounds of the model *)
MaxTicks == 2
MaxFlips == 1
MaxCalls == 3
MaxOps   == 3
MaxWrites == 4
MaxQueries == 2
MaxScans == 1
EmbDim == 2
MaxLists == 1
MaxFetches == 2
MaxStarts == 2
MaxDim == 2
MaxRiskCalls == 2
MaxClientCalls == 3

(* Program constants *)
DEFAULT_TTL == 300
QUERY_TTL == 300
EXCERPT_LEN == 200
SUMMARY_LEN == 150
SHORT_LEN == 200

-----------------------------------------------------------------------------
(* Python values *)
None == <<>>
Some(x) == <<x>>
JsonDumps(x) == <<"json", x>>
JsonLoads(s) == s[2]
NoExpiry == 0 - 1

EmptyMap == [k \in {} |-> None]
Put(f, k, v) == [x \in (DOMAIN f) \cup {k} |-> IF x = k THEN v ELSE f[x]]
Drop(f, k) == [x \in (DOMAIN f) \ {k} |-> f[x]]

-----------------------------------------------------------------------------
(* MockRedisClient: the process-local fallback store.  m is the pair of    *)
(* dictionaries [cache, expiry].                                           *)

MockRedisClient_init == [cache |-> EmptyMap, expiry |-> EmptyMap]

(* the expiry comparison made inclusive: a value is served at its expiry   *)
(* instant                                                                 *)
MockRedisClient_get_Inclusive(m, t, key) ==
    IF key \in DOMAIN m.cache
         /\ (key \notin DOMAIN m.expiry \/ m.expiry[key] >= t)
    THEN m.cache[key]
    ELSE None

MockRedisClient_get(m, t, key) ==
    IF key \in DOMAIN m.cache
         /\ (key \notin DOMAIN m.expiry \/ m.expiry[key] > t)
    THEN m.cache[key]
    ELSE None

MockRedisClient_set(m, t, key, value, ex) ==
    [cache  |-> Put(m.cache, key, value),
     expiry |-> IF ex # None THEN Put(m.expiry, key, t + ex[1]) ELSE m.expiry]

MockRedisClient_delete(m, key) ==
    [cache |-> Drop(m.cache, key), expiry |-> Drop(m.expiry, key)]

-----------------------------------------------------------------------------
(* The Redis server behind redis.Redis: GET / SET key value EX ttl.  A call *)
(* made while the server does not answer raises ConnectionError/Timeout.   *)

RedisGet(data, up, t, key) ==
    IF ~up THEN [exc |-> TRUE, val |-> None]
    ELSE [exc |-> FALSE,
          val |-> IF key \in DOMAIN data
                       /\ (data[key].exp = NoExpiry \/ data[key].exp > t)
                  THEN data[key].val ELSE None]

RedisSet(data, up, t, key, value, ex) ==
    IF ~up THEN [exc |-> TRUE, data |-> data]
    ELSE [exc |-> FALSE,
          data |-> Put(data, key,
                       [val |-> value,
                        exp |-> IF ex # None THEN t + ex[1] ELSE NoExpiry])]

-----------------------------------------------------------------------------
(* The cache layer.  c is the state of the layer:                          *)
(*   [client, redisData, mock]; up is whether the server answers.          *)

CacheState == [client |-> client, redisData |-> redisData,
               mock |-> [cache |-> mockCache, expiry |-> mockExpiry]]

(* get_redis_client: connect on the first call only; any failure of the    *)
(* ping installs a fresh MockRedisClient.                                  *)
(* no fallback: the failed client is kept *)
get_redis_client_NoFallback(c, up) ==
    IF c.client = "unset" THEN [c EXCEPT !.client = "redis"] ELSE c

get_redis_client(c, up) ==
    IF c.client = "unset"
    THEN IF up THEN [c EXCEPT !.client = "redis"]
               ELSE [c EXCEPT !.client = "mock", !.mock = MockRedisClient_init]
    ELSE c

(* client.get(key) on whichever client is installed *)
client_get(c, up, t, key) ==
    IF c.client = "redis" THEN RedisGet(c.redisData, up, t, key)
    ELSE [exc |-> FALSE, val |-> MockRedisClient_get(c.mock, t, key)]

(* client.set(key, value, ex=ttl) on whichever client is installed *)
client_set(c, up, t, key, value, ex) ==
    IF c.client = "redis"
    THEN LET r == RedisSet(c.redisData, up, t, key, value, ex)
         IN  [exc |-> r.exc, c |-> [c EXCEPT !.redisData = r.data]]
    ELSE [exc |-> FALSE,
          c |-> [c EXCEPT !.mock = MockRedisClient_set(c.mock, t, key, value, ex)]]

(* get_cached_result(key, default=None): [c, ret, raised] *)
get_cached_result(c0, up, t, key) ==
    LET c == get_redis_client(c0, up)
        r == client_get(c, up, t, key)
    IN  IF r.exc
        THEN [c |-> c, ret |-> None, raised |-> FALSE]
        ELSE [c |-> c, ret |-> IF r.val # None THEN r.val ELSE None,
              raised |-> FALSE]

(* cache_result(key, value, ttl): [c, ret, raised] *)
cache_result(c0, up, t, key, value, ttl) ==
    LET c == get_redis_client(c0, up)
        r == client_set(c, up, t, key, value, ttl)
    IN  IF r.exc
        THEN [c |-> c, ret |-> FALSE, raised |-> FALSE]
        ELSE [c |-> r.c, ret |-> TRUE, raised |-> FALSE]

(* history: whether the server answered the first get_redis_client *)
StartupOf(st, up) == IF st = "none" THEN (IF up THEN "up" ELSE "down") ELSE st

SetCacheState(c) ==
    /\ client' = c.client
    /\ redisData' = c.redisData
    /\ mockCache' = c.mock.cache
    /\ mockExpiry' = c.mock.expiry

-----------------------------------------------------------------------------
(* Text.  A Python str is a sequence of one-character strings, so that      *)
(* lower(), split(), count() and slicing are computed as Python computes    *)
(* them; Str(s) is the same text as one string, used to build cache keys.   *)

RECURSIVE Str(_)
Str(s) == IF s = <<>> THEN "" ELSE s[1] \o Str(Tail(s))

LowerChar(c) ==
    CASE c = "I" -> "i" [] c = "N" -> "n" [] c = "T" -> "t" [] c = "X" -> "x"
      [] OTHER -> c

(* str.lower() *)
Lower(s) == [i \in 1..Len(s) |-> LowerChar(s[i])]

IsSpace(c) == c = " "

(* str.split(): the maximal runs of non-blank characters, in order *)
RECURSIVE SplitFrom(_, _, _)
SplitFrom(s, i, word) ==
    IF i > Len(s)
    THEN IF word = <<>> THEN <<>> ELSE <<word>>
    ELSE IF IsSpace(s[i])
         THEN IF word = <<>> THEN SplitFrom(s, i + 1, <<>>)
                             ELSE <<word>> \o SplitFrom(s, i + 1, <<>>)
         ELSE SplitFrom(s, i + 1, Append(word, s[i]))

Split(s) == SplitFrom(s, 1, <<>>)

(* set(seq) *)
ToSet(seq) == {seq[i] : i \in 1..Len(seq)}

(* whether sub occurs in s at position i *)
OccursAt(s, sub, i) ==
    /\ i + Len(sub) - 1 <= Len(s)
    /\ \A j \in 1..Len(sub) : s[i + j - 1] = sub[j]

(* str.count(sub): the number of non-overlapping occurrences, scanning from *)
(* the left; the empty string occurs len(s)+1 times                         *)
RECURSIVE CountFrom(_, _, _)
CountFrom(s, sub, i) ==
    IF i + Len(sub) - 1 > Len(s) THEN 0
    ELSE IF OccursAt(s, sub, i)
         THEN 1 + CountFrom(s, sub, i + Len(sub))
         ELSE CountFrom(s, sub, i + 1)

Count(s, sub) == IF sub = <<>> THEN Len(s) + 1 ELSE CountFrom(s, sub, 1)

(* s[:n] *)
Take(s, n) == SubSeq(s, 1, IF n < Len(s) THEN n ELSE Len(s))

-----------------------------------------------------------------------------
(* Numbers.  A Python float is the exact rational [n, d], d > 0, in lowest  *)
(* terms; the embeddings of the model have integer magnitudes, so that      *)
(* math.sqrt is exact on them.                                              *)

Abs(x) == IF x < 0 THEN 0 - x ELSE x

RECURSIVE Gcd(_, _)
Gcd(a, b) == IF b = 0 THEN a ELSE Gcd(b, a % b)

Rat(n, d) ==
    LET g == Gcd(Abs(n), Abs(d))
        sgn == IF d < 0 THEN 0 - 1 ELSE 1
    IN  [n |-> (sgn * n) \div g, d |-> (sgn * d) \div g]

Zero == [n |-> 0, d |-> 1]
RatAdd(x, y) == Rat(x.n * y.d + y.n * x.d, x.d * y.d)
RatMul(x, y) == Rat(x.n * y.n, x.d * y.d)
RatDiv(x, y) == Rat(x.n * y.d, x.d * y.n)
RatLess(x, y) == x.n * y.d < y.n * x.d
FromInt(i) == [n |-> i, d |-> 1]

(* math.sqrt on the perfect squares that occur *)
Sqrt(n) == CHOOSE r \in 0..n : r * r = n

RECURSIVE SumSeq(_)
SumSeq(s) == IF s = <<>> THEN 0 ELSE s[1] + SumSeq(Tail(s))

Min(a, b) == IF a < b THEN a ELSE b

-----------------------------------------------------------------------------
(* Scorer *)

(* line 102: if magnitude1 == 0 or magnitude2 == 0 *)
zero_magnitude_Never(magnitude1, magnitude2) == FALSE

zero_magnitude(magnitude1, magnitude2) == magnitude1 = 0 \/ magnitude2 = 0

(* x / y: [ret, raised]; a zero divisor raises ZeroDivisionError *)
PyDiv(x, y) ==
    IF y = 0 THEN [ret |-> None, raised |-> TRUE]
    ELSE [ret |-> Rat(x, y), raised |-> FALSE]

(* vector_similarity: [ret, raised]; zip stops at the shorter vector *)
vector_similarity_call(vec1, vec2) ==
    LET m == Min(Len(vec1), Len(vec2))
        dot_product == SumSeq([i \in 1..m |-> vec1[i] * vec2[i]])
        magnitude1 == Sqrt(SumSeq([i \in 1..Len(vec1) |-> vec1[i] * vec1[i]]))
        magnitude2 == Sqrt(SumSeq([i \in 1..Len(vec2) |-> vec2[i] * vec2[i]]))
    IN  IF zero_magnitude(magnitude1, magnitude2)
        THEN [ret |-> Zero, raised |-> FALSE]
        ELSE PyDiv(dot_product, magnitude1 * magnitude2)

(* the value vector_similarity returns *)
vector_similarity(vec1, vec2) == vector_similarity_call(vec1, vec2).ret

K1 == [n |-> 3, d |-> 2]
B  == [n |-> 3, d |-> 4]
One == [n |-> 1, d |-> 1]

(* one term of bm25_score (lines 127-134), avg_doc_len = len(doc_terms) *)
term_score(term, doc_content, doc_terms) ==
    LET tf == FromInt(Count(doc_content, term))
        doc_len == Cardinality(doc_terms)
        avg_doc_len == Cardinality(doc_terms)
        norm_factor == RatAdd(RatAdd(One, Rat(0 - B.n, B.d)),
                              RatMul(B, Rat(doc_len, avg_doc_len)))
    IN  RatDiv(RatMul(tf, RatAdd(K1, One)),
               RatAdd(tf, RatMul(K1, norm_factor)))

RECURSIVE SumTerms(_, _, _)
SumTerms(terms, doc_content, doc_terms) ==
    IF terms = {} THEN Zero
    ELSE LET term == CHOOSE x \in terms : TRUE
             rest == SumTerms(terms \ {term}, doc_content, doc_terms)
         IN  IF term \in doc_terms
             THEN RatAdd(term_score(term, doc_content, doc_terms), rest)
             ELSE rest

(* bm25_score(query_terms, document) with the default k1, b, avg_doc_len *)
bm25_score(query_terms, document) ==
    IF query_terms = {} THEN Zero
    ELSE LET doc_content == Lower(document.content)
             doc_terms == ToSet(Split(doc_content))
         IN  SumTerms(query_terms, doc_content, doc_terms)

W_VECTOR == [n |-> 7, d |-> 10]
W_KEYWORD == [n |-> 3, d |-> 10]

W_HALF == [n |-> 1, d |-> 2]

(* line 189 with equal weights *)
combined_score_EqualWeights(vector_score, keyword_score) ==
    RatAdd(RatMul(W_HALF, vector_score), RatMul(W_HALF, keyword_score))

(* line 189 *)
combined_score(vector_score, keyword_score) ==
    RatAdd(RatMul(W_VECTOR, vector_score), RatMul(W_KEYWORD, keyword_score))

-----------------------------------------------------------------------------
(* Embedding provider and generate_embedding *)

T_in == <<"i", "n">>
T_tin_in == <<"t", "i", "n", " ", "i", "n">>
T_x == <<"x">>
T_X == <<"X">>
T_insider_trading ==
    <<"i", "n", "s", "i", "d", "e", "r", " ", "t", "r", "a", "d",
      "i", "n", "g">>
T_insider_trading_violation ==
    <<"i", "n", "s", "i", "d", "e", "r", " ", "t", "r", "a", "d",
      "i", "n", "g", " ", "v", "i", "o", "l", "a", "t", "i", "o",
      "n">>
T_routine_quarterly_filing ==
    <<"r", "o", "u", "t", "i", "n", "e", " ", "q", "u", "a", "r",
      "t", "e", "r", "l", "y", " ", "f", "i", "l", "i", "n", "g">>

(* the provider's embedding of a text (text-embedding-ada-002) *)
Provider(text) ==
    IF text \in {T_in, T_insider_trading} THEN <<1, 0>> ELSE <<0, 1>>

(* hash(text): an integer of bounded width *)
HashModulus == 1000003

CharCode(c) ==
    CASE c = "i" -> 1 [] c = "n" -> 2 [] c = "t" -> 3 [] c = "x" -> 4
      [] c = " " -> 5 [] OTHER -> 6

RECURSIVE Hash(_)
Hash(text) ==
    IF text = <<>> THEN 0
    ELSE (CharCode(text[1]) + 7 * Hash(Tail(text))) % HashModulus

embedding_cache_key(text) == "embedding:" \o ToString(Hash(text))

(* [0.0] * 1536, the dimension scaled down to EmbDim *)
ZeroVector == [i \in 1..EmbDim |-> 0]

(* the except clause returns the vector of the last successful call *)
generate_embedding_Stale(c0, up, pup, t, text) ==
    LET cache_key == embedding_cache_key(text)
        g == get_cached_result(c0, up, t, cache_key)
    IN  IF g.ret # None
        THEN [c |-> g.c, ret |-> JsonLoads(g.ret), called |-> FALSE,
              failed |-> FALSE]
        ELSE IF ~pup
             THEN [c |-> g.c, ret |-> <<1, 0>>, called |-> TRUE,
                   failed |-> TRUE]
             ELSE LET embedding == Provider(text)
                      w == cache_result(g.c, up, t, cache_key,
                                        JsonDumps(embedding), Some(DEFAULT_TTL))
                  IN  [c |-> w.c, ret |-> embedding, called |-> TRUE,
                       failed |-> FALSE]

(* generate_embedding(text): [c, ret, called, failed]; called is whether    *)
(* the provider was asked, failed whether the except clause of lines 51-54  *)
(* ran                                                                      *)
generate_embedding(c0, up, pup, t, text) ==
    LET cache_key == embedding_cache_key(text)
        g == get_cached_result(c0, up, t, cache_key)
    IN  IF g.ret # None
        THEN [c |-> g.c, ret |-> JsonLoads(g.ret), called |-> FALSE,
              failed |-> FALSE]
        ELSE IF ~pup
             THEN [c |-> g.c, ret |-> ZeroVector, called |-> TRUE,
                   failed |-> TRUE]
             ELSE LET embedding == Provider(text)
                      w == cache_result(g.c, up, t, cache_key,
                                        JsonDumps(embedding), Some(DEFAULT_TTL))
                  IN  [c |-> w.c, ret |-> embedding, called |-> TRUE,
                       failed |-> FALSE]

-----------------------------------------------------------------------------
(* Document Store: the module-level dictionaries documents and              *)
(* document_embeddings.  A dict keeps its keys in insertion order.          *)

DocIds == {"A", "B"}
EmbVals == {<<1, 0>>, <<0, 1>>}

(* a document record (data model): the fields the read paths use *)
DocumentFull(title, content, jurisdiction, timestamp, keywords, risk_score) ==
    [title |-> title, content |-> content, source |-> "SEC",
     jurisdiction |-> jurisdiction, date |-> "2024-01-01",
     timestamp |-> timestamp, keywords |-> keywords,
     risk_score |-> risk_score]

Document(content, jurisdiction) ==
    DocumentFull(<<"t">>, content, jurisdiction, 1, <<>>, [n |-> 1, d |-> 2])

(* upsert(document): documents[id] = document.  A document is stored once  *)
(* and is immutable from then on.                                           *)
Upsert(id, doc) ==
    /\ nwrites < MaxWrites
    /\ id \notin DOMAIN docs
    /\ docOrder' = IF id \in DOMAIN docs THEN docOrder ELSE Append(docOrder, id)
    /\ docs' = Put(docs, id, doc)
    /\ nwrites' = nwrites + 1
    /\ qstable' = FALSE
    /\ UNCHANGED <<now, nticks, cacheVars, histVars, thrVars, providerUp, embs,
                   nqueries, qLocals, qhit, qfx, qseen, qwrite, qheld, qhist,
                   qexpect, qlk, extVars>>

(* set_embedding(id, vector): document_embeddings[id] = vector.  The        *)
(* embedding of a stored document is written once, after the document.      *)
SetEmbedding(id, vec) ==
    /\ nwrites < MaxWrites
    /\ id \in DOMAIN docs /\ id \notin DOMAIN embs
    /\ embs' = Put(embs, id, vec)
    /\ nwrites' = nwrites + 1
    /\ qstable' = FALSE
    /\ UNCHANGED <<now, nticks, cacheVars, histVars, thrVars, providerUp,
                   docOrder, docs, nqueries, qLocals, qhit, qfx, qseen, qwrite,
                   qheld, qhist, qexpect, qlk, extVars>>

-----------------------------------------------------------------------------
(* query_hybrid_index *)

QueryTexts == {T_in}
TopKs == {1, 2}

(* str(jurisdiction) inside the f-string *)
PyStr(j) == IF j = None THEN "None" ELSE j[1]

(* bool(jurisdiction) *)
JurTruthy(j) == j # None /\ j[1] # ""

(* line 149: if cached_results *)
cache_hit_Never(cached_results) == FALSE

cache_hit(cached_results) == cached_results # None

(* line 147 with an absent jurisdiction left out of the key *)
query_cache_key_OmitNone(query, jurisdiction, top_k) ==
    IF jurisdiction = None
    THEN "query:" \o Str(query) \o ":" \o ToString(top_k)
    ELSE "query:" \o Str(query) \o ":" \o PyStr(jurisdiction) \o ":"
            \o ToString(top_k)

(* line 147 *)
query_cache_key(query, jurisdiction, top_k) ==
    "query:" \o Str(query) \o ":" \o PyStr(jurisdiction) \o ":" \o ToString(top_k)

(* line 162 *)
query_terms_of(query) == ToSet(Split(Lower(query)))

(* line 177: document_embeddings.get(doc_id) *)
get_embedding(e, doc_id) == IF doc_id \in DOMAIN e THEN e[doc_id] ELSE None

(* line 179: if not doc_embedding (None, or an empty vector) *)
no_embedding_Never(doc_embedding) == FALSE

no_embedding(doc_embedding) == doc_embedding = None

(* line 200 *)
excerpt_of(content) ==
    IF Len(content) > EXCERPT_LEN
    THEN Take(content, EXCERPT_LEN) \o <<".", ".", ".">>
    ELSE content

(* lines 182-201: the record of one document *)
result_record(doc_id, doc, query_embedding, doc_embedding, query_terms) ==
    LET vector_score == vector_similarity(query_embedding, doc_embedding)
        keyword_score == bm25_score(query_terms, doc)
    IN  [id |-> doc_id, title |-> doc.title, date |-> doc.date,
         source |-> doc.source, jurisdiction |-> doc.jurisdiction,
         score |-> combined_score(vector_score, keyword_score),
         risk_score |-> doc.risk_score, excerpt |-> excerpt_of(doc.content)]

(* sorted(results, key=score, reverse=True): stable, equal scores keep the  *)
(* order of the input                                                       *)
(* the sort without reverse=True *)
RECURSIVE InsertDesc_Ascending(_, _)
InsertDesc_Ascending(sorted, r) ==
    IF sorted = <<>> THEN <<r>>
    ELSE IF RatLess(r.score, sorted[Len(sorted)].score)
         THEN Append(InsertDesc_Ascending(SubSeq(sorted, 1, Len(sorted) - 1), r),
                     sorted[Len(sorted)])
         ELSE Append(sorted, r)

RECURSIVE InsertDesc(_, _)
InsertDesc(sorted, r) ==
    IF sorted = <<>> THEN <<r>>
    ELSE IF RatLess(sorted[Len(sorted)].score, r.score)
         THEN Append(InsertDesc(SubSeq(sorted, 1, Len(sorted) - 1), r),
                     sorted[Len(sorted)])
         ELSE Append(sorted, r)

RECURSIVE SortedDesc(_)
SortedDesc(results) ==
    IF results = <<>> THEN <<>>
    ELSE InsertDesc(SortedDesc(SubSeq(results, 1, Len(results) - 1)),
                    results[Len(results)])

(* s[:k] *)
SliceTo(s, k) ==
    IF k >= 0 THEN Take(s, k)
    ELSE Take(s, IF Len(s) + k > 0 THEN Len(s) + k ELSE 0)

(* line 204 without the sort *)
rank_results_Unsorted(results, top_k) == SliceTo(results, top_k)

(* line 204 *)
rank_results(results, top_k) == SliceTo(SortedDesc(results), top_k)

(* history: what the backend in use holds under key at time t, if it answers *)
Held(c, up, t, key) ==
    IF c.client = "mock"
    THEN IF key \in DOMAIN c.mock.cache
              /\ (key \notin DOMAIN c.mock.expiry \/ c.mock.expiry[key] > t)
         THEN [held |-> TRUE, value |-> c.mock.cache[key]]
         ELSE [held |-> FALSE, value |-> None]
    ELSE IF c.client = "redis" /\ up /\ key \in DOMAIN c.redisData
              /\ (c.redisData[key].exp = NoExpiry \/ c.redisData[key].exp > t)
         THEN [held |-> TRUE, value |-> c.redisData[key].val]
         ELSE [held |-> FALSE, value |-> None]

(* history: whether the backend in use answers *)
Answers(c, up) == c.client = "mock" \/ (c.client = "redis" /\ up)

(* the locks query_hybrid_index holds at each of its statements: a lock is  *)
(* held inside its with block only (lines 158-159, 165-166, 176-177)        *)
query_locks_Coarse(stmt) ==
    IF stmt = "get_embedding" THEN {"embeddings"} ELSE {"documents"}

query_locks(stmt) ==
    CASE stmt = "list_ids" -> {"documents"}
      [] stmt = "get_document" -> {"documents"}
      [] stmt = "get_embedding" -> {"embeddings"}
      [] OTHER -> {}

(* history: a statement executed, with the locks held while it ran *)
QStep(stmt) == [stmt |-> stmt, held |-> query_locks(stmt)]

NoWrite == [key |-> "", value |-> None, ttl |-> None, ok |-> FALSE, at |-> 0]
NoArg == [query |-> <<>>, jurisdiction |-> None, top_k |-> 0]
NoDoc == Document(<<>>, "")

(* lines 146-150: the cache check; on a hit the call returns *)
Q_Start(query, jurisdiction, top_k) ==
    /\ qpc \in {"idle", "done"}
    /\ nqueries' = nqueries + 1
    /\ LET arg == [query |-> query, jurisdiction |-> jurisdiction, top_k |-> top_k]
           cache_key == query_cache_key(query, jurisdiction, top_k)
           r == get_cached_result(CacheState, redisUp, now, cache_key)
       IN  /\ SetCacheState(r.c)
           /\ qarg' = arg
           /\ qheld' = Held(r.c, redisUp, now, cache_key)
           /\ qexpect' =
                 LET known == arg \in DOMAIN qhist
                                /\ now < qhist[arg].at + QUERY_TTL
                     valid == known /\ qhist[arg].ok /\ Answers(r.c, redisUp)
                 IN  [valid |-> valid,
                      ret |-> IF valid THEN qhist[arg].ret ELSE <<>>,
                      fallback |-> known /\ qhist[arg].failed /\ providerUp,
                      last |-> IF known THEN qhist[arg].ret ELSE <<>>]
           /\ IF cache_hit(r.ret)
              THEN /\ qpc' = "done"
                   /\ qret' = JsonLoads(r.ret)
                   /\ qhit' = TRUE
              ELSE /\ qpc' = "embed"
                   /\ qret' = <<>>
                   /\ qhit' = FALSE
    /\ qemb' = <<>> /\ qids' = <<>> /\ qi' = 0 /\ qdoc' = NoDoc /\ qres' = <<>>
    /\ qfx' = {} /\ qseen' = EmptyMap /\ qstable' = TRUE /\ qwrite' = NoWrite
    /\ qlk' = {QStep("get_cached_result")}
    /\ startup' = StartupOf(startup, redisUp)
    /\ UNCHANGED <<now, nticks, redisUp, nflips, ncalls, lastCall, written,
                   thrVars, providerUp, storeVars, qhist, extVars>>

(* line 153: query_embedding = generate_embedding(query) *)
Q_Embed ==
    /\ qpc = "embed"
    /\ LET r == generate_embedding(CacheState, redisUp, providerUp, now, qarg.query)
       IN  /\ SetCacheState(r.c)
           /\ qemb' = r.ret
           /\ qfx' = qfx \cup {"embedding"}
                      \cup (IF r.failed THEN {"embedding_failed"} ELSE {})
    /\ qlk' = qlk \cup {QStep("generate_embedding")}
    /\ qpc' = "list"
    /\ UNCHANGED <<now, nticks, redisUp, nflips, histVars, thrVars, providerUp,
                   storeVars, nqueries, qarg, qids, qi, qdoc, qres, qret,
                   qhit, qseen, qstable, qwrite, qheld, qhist, qexpect, extVars>>

(* lines 158-159: doc_ids = list(documents.keys()) *)
Q_List ==
    /\ qpc = "list"
    /\ qids' = docOrder
    /\ qi' = 1
    /\ qfx' = qfx \cup {"documents"}
    /\ qlk' = qlk \cup {QStep("list_ids")}
    /\ qpc' = "doc"
    /\ UNCHANGED <<now, nticks, cacheVars, histVars, thrVars, providerUp,
                   storeVars, nqueries, qarg, qemb, qdoc, qres, qret,
                   qhit, qseen, qstable, qwrite, qheld, qhist, qexpect, extVars>>

(* lines 164-173: doc = documents.get(doc_id); the jurisdiction filter *)
Q_ReadDoc ==
    /\ qpc = "doc" /\ qi <= Len(qids)
    /\ LET doc_id == qids[qi]
       IN  IF doc_id \notin DOMAIN docs
              \/ (JurTruthy(qarg.jurisdiction)
                    /\ docs[doc_id].jurisdiction # qarg.jurisdiction[1])
           THEN /\ qi' = qi + 1
                /\ UNCHANGED <<qpc, qdoc>>
           ELSE /\ qdoc' = docs[doc_id]
                /\ qpc' = "emb"
                /\ qi' = qi
    /\ qlk' = qlk \cup {QStep("get_document")}
    /\ UNCHANGED <<now, nticks, cacheVars, histVars, thrVars, providerUp,
                   storeVars, nqueries, qarg, qemb, qids, qres, qret,
                   qhit, qfx, qseen, qstable, qwrite, qheld, qhist, qexpect,
                   extVars>>

(* lines 175-201: doc_embedding = document_embeddings.get(doc_id); a        *)
(* document with no embedding is skipped, any other is scored and appended  *)
Q_ReadEmb ==
    /\ qpc = "emb"
    /\ LET doc_id == qids[qi]
           doc_embedding == get_embedding(embs, doc_id)
       IN  /\ qseen' = Put(qseen, doc_id, doc_id \in DOMAIN embs)
           /\ IF no_embedding(doc_embedding)
              THEN /\ qres' = qres
                   /\ qfx' = qfx \cup {"embeddings"}
              ELSE /\ qres' = Append(qres,
                                result_record(doc_id, qdoc, qemb, doc_embedding,
                                              query_terms_of(qarg.query)))
                   /\ qfx' = qfx \cup {"embeddings", "score"}
    /\ qi' = qi + 1
    /\ qdoc' = NoDoc
    /\ qlk' = qlk \cup {QStep("get_embedding")}
    /\ qpc' = "doc"
    /\ UNCHANGED <<now, nticks, cacheVars, histVars, thrVars, providerUp,
                   storeVars, nqueries, qarg, qemb, qids, qret,
                   qhit, qstable, qwrite, qheld, qhist, qexpect, extVars>>

(* lines 203-209: sort, truncate, cache, return *)
Q_Finish ==
    /\ qpc = "doc" /\ qi > Len(qids)
    /\ LET results == rank_results(qres, qarg.top_k)
           cache_key == query_cache_key(qarg.query, qarg.jurisdiction, qarg.top_k)
           w == cache_result(CacheState, redisUp, now, cache_key,
                             JsonDumps(results), Some(QUERY_TTL))
       IN  /\ SetCacheState(w.c)
           /\ qret' = results
           /\ qwrite' = [key |-> cache_key, value |-> JsonDumps(results),
                         ttl |-> Some(QUERY_TTL), ok |-> w.ret, at |-> now]
           /\ qhist' = Put(qhist, qarg,
                         [ret |-> results, at |-> now, ok |-> w.ret,
                          failed |-> "embedding_failed" \in qfx])
    /\ qfx' = qfx \cup {"cache_write"}
    /\ qlk' = qlk \cup {QStep("cache_result")}
    /\ qpc' = "done"
    /\ qids' = <<>> /\ qi' = 0 /\ qres' = <<>>
    /\ UNCHANGED <<now, nticks, redisUp, nflips, histVars, thrVars, providerUp,
                   storeVars, nqueries, qarg, qemb, qdoc,
                   qhit, qseen, qstable, qheld, qexpect, extVars>>

(* the embedding provider goes down / comes back *)
ProviderFail ==
    /\ providerUp /\ nflips < MaxFlips
    /\ providerUp' = FALSE /\ nflips' = nflips + 1
    /\ UNCHANGED <<now, nticks, redisUp, client, redisData, mockCache,
                   mockExpiry, histVars, thrVars, storeVars, qVars, extVars>>

ProviderRecover ==
    /\ ~providerUp /\ nflips < MaxFlips
    /\ providerUp' = TRUE /\ nflips' = nflips + 1
    /\ UNCHANGED <<now, nticks, redisUp, client, redisData, mockCache,
                   mockExpiry, histVars, thrVars, storeVars, qVars, extVars>>

InitEngine ==
    /\ docOrder = <<>> /\ docs = EmptyMap /\ embs = EmptyMap /\ nwrites = 0
    /\ nqueries = 0
    /\ qpc = "idle" /\ qarg = NoArg /\ qemb = <<>> /\ qids = <<>> /\ qi = 0
    /\ qdoc = NoDoc /\ qres = <<>> /\ qret = <<>>
    /\ qhit = FALSE /\ qfx = {} /\ qseen = EmptyMap /\ qstable = TRUE
    /\ qwrite = NoWrite /\ qheld = [held |-> FALSE, value |-> None]
    /\ qhist = EmptyMap
    /\ qexpect = [valid |-> FALSE, ret |-> <<>>, fallback |-> FALSE,
                  last |-> <<>>]
    /\ qlk = {}

-----------------------------------------------------------------------------
(* get_latest_documents *)

(* lines 216-221: risk_level_map *)
risk_level_map ==
    [Low |-> [n |-> 1, d |-> 4], Medium |-> [n |-> 1, d |-> 2],
     High |-> [n |-> 3, d |-> 4], Critical |-> [n |-> 9, d |-> 10]]

(* line 223: risk_level_map.get(min_risk, 0.0) if min_risk else 0.0 *)
min_risk_value(min_risk) ==
    IF min_risk # None /\ min_risk[1] # "" /\ min_risk[1] \in DOMAIN risk_level_map
    THEN risk_level_map[min_risk[1]]
    ELSE Zero

(* line 243: doc["risk_score"] < min_risk_value *)
below_min_risk_Never(doc, value) == FALSE

below_min_risk(doc, value) == RatLess(doc.risk_score, value)

(* sub in s *)
Contains(s, sub) ==
    LET text == s \o <<>>
    IN  \E i \in 1..(Len(text) + 1) : OccursAt(text, sub, i)

(* bool(search_query) *)
SearchTruthy(q) == q # None /\ q[1] # <<>>

(* lines 247-255: the text search over title, content and keywords *)
search_match(doc, search_query) ==
    LET query_lower == Lower(search_query)
        title_match == Contains(Lower(doc.title), query_lower)
        content_match == Contains(Lower(doc.content), query_lower)
        keyword_match == \E k \in DOMAIN doc.keywords :
                            Contains(Lower(doc.keywords[k]), query_lower)
    IN  title_match \/ content_match \/ keyword_match

(* lines 235-255: whether the document read passes every filter *)
latest_keeps(doc, arg) ==
    /\ ~(JurTruthy(arg.jurisdiction) /\ doc.jurisdiction # arg.jurisdiction[1])
    /\ ~below_min_risk(doc, min_risk_value(arg.min_risk))
    /\ SearchTruthy(arg.search_query) => search_match(doc, arg.search_query[1])

(* line 267 *)
summary_of(content) ==
    IF Len(content) > SUMMARY_LEN
    THEN Take(content, SUMMARY_LEN) \o <<".", ".", ".">>
    ELSE content

(* lines 258-268 *)
latest_record(doc_id, doc) ==
    [id |-> doc_id, title |-> doc.title, content |-> doc.content,
     date |-> doc.date, source |-> doc.source,
     jurisdiction |-> doc.jurisdiction, risk_score |-> doc.risk_score,
     keywords |-> doc.keywords, summary |-> summary_of(doc.content)]

(* line 271: sorted(results, key=documents[id]["timestamp"], reverse=True), *)
(* stable; d is the documents map at the time of the sort                   *)
RECURSIVE InsertNewest(_, _, _)
InsertNewest(sorted, r, d) ==
    IF sorted = <<>> THEN <<r>>
    ELSE IF d[sorted[Len(sorted)].id].timestamp < d[r.id].timestamp
         THEN Append(InsertNewest(SubSeq(sorted, 1, Len(sorted) - 1), r, d),
                     sorted[Len(sorted)])
         ELSE Append(sorted, r)

RECURSIVE SortedNewest(_, _)
SortedNewest(results, d) ==
    IF results = <<>> THEN <<>>
    ELSE InsertNewest(SortedNewest(SubSeq(results, 1, Len(results) - 1), d),
                      results[Len(results)], d)

(* line 271 without the sort *)
latest_rank_Unsorted(results, d, limit) == SliceTo(results, limit)

(* line 271 *)
latest_rank(results, d, limit) == SliceTo(SortedNewest(results, d), limit)

(* the locks get_latest_documents holds at each of its statements: the with *)
(* blocks of lines 228-229 and 232-233; the sort key of line 271 reads      *)
(* documents outside any with block                                         *)
latest_locks(stmt) ==
    CASE stmt = "list_ids" -> {"documents"}
      [] stmt = "get_document" -> {"documents"}
      [] OTHER -> {}

LStep(stmt) == [stmt |-> stmt, held |-> latest_locks(stmt)]

NoLatestArg == [jurisdiction |-> None, min_risk |-> None,
                search_query |-> None, limit |-> 0]

(* lines 211-226: the call starts *)
L_Start(jurisdiction, min_risk, search_query, limit) ==
    /\ lpc \in {"idle", "done"}
    /\ nlists < MaxLists
    /\ nlists' = nlists + 1
    /\ larg' = [jurisdiction |-> jurisdiction, min_risk |-> min_risk,
                search_query |-> search_query, limit |-> limit]
    /\ lpc' = "list"
    /\ lids' = <<>> /\ li' = 0 /\ lres' = <<>> /\ lret' = <<>>
    /\ lsnap' = nwrites
    /\ llk' = {}
    /\ UNCHANGED <<now, nticks, cacheVars, histVars, thrVars, engineVars,
                   ingestVars, sim, moreVars>>

(* lines 228-229: doc_ids = list(documents.keys()) *)
L_List ==
    /\ lpc = "list"
    /\ lids' = docOrder
    /\ li' = 1
    /\ lpc' = "doc"
    /\ llk' = llk \cup {LStep("list_ids")}
    /\ UNCHANGED <<now, nticks, cacheVars, histVars, thrVars, engineVars,
                   larg, lres, lret, lsnap, nlists, ingestVars, sim, moreVars>>

(* lines 231-268: doc = documents.get(doc_id), the filters, the record *)
L_ReadDoc ==
    /\ lpc = "doc" /\ li <= Len(lids)
    /\ LET doc_id == lids[li]
       IN  IF doc_id \in DOMAIN docs /\ latest_keeps(docs[doc_id], larg)
           THEN lres' = Append(lres, latest_record(doc_id, docs[doc_id]))
           ELSE lres' = lres
    /\ li' = li + 1
    /\ llk' = llk \cup {LStep("get_document")}
    /\ UNCHANGED <<now, nticks, cacheVars, histVars, thrVars, engineVars,
                   lpc, larg, lids, lret, lsnap, nlists, ingestVars, sim, moreVars>>

(* lines 270-273: sort by timestamp, truncate, return; the sort key reads   *)
(* documents once for every record collected                                *)
L_Sort ==
    /\ lpc = "doc" /\ li > Len(lids)
    /\ lret' = latest_rank(lres, docs, larg.limit)
    /\ llk' = IF lres = <<>> THEN llk ELSE llk \cup {LStep("sort_key")}
    /\ lpc' = "done"
    /\ lids' = <<>> /\ li' = 0 /\ lres' = <<>>
    /\ UNCHANGED <<now, nticks, cacheVars, histVars, thrVars, engineVars,
                   larg, lsnap, nlists, ingestVars, sim, moreVars>>

(* set_risk(id, score): the risk-analysis collaborator stores the record    *)
(* of a document again with a new risk_score                                *)
SetRisk(id, score) ==
    /\ nwrites < MaxWrites
    /\ id \in DOMAIN docs /\ docs[id].risk_score # score
    /\ docs' = [docs EXCEPT ![id].risk_score = score]
    /\ nwrites' = nwrites + 1
    /\ qstable' = FALSE
    /\ UNCHANGED <<now, nticks, cacheVars, histVars, thrVars, providerUp,
                   docOrder, embs, nqueries, qLocals, qhit, qfx, qseen, qwrite,
                   qheld, qhist, qexpect, qlk, extVars>>

InitLatest ==
    /\ lpc = "idle" /\ larg = NoLatestArg /\ lids = <<>> /\ li = 0
    /\ lres = <<>> /\ lret = <<>> /\ lsnap = 0 /\ llk = {} /\ nlists = 0

-----------------------------------------------------------------------------
(* A call of vector_similarity on two vectors *)

SimComps == {0 - 3, 0, 3, 4}
IsSquare(n) == \E r \in 0..n : r * r = n
SumSquares(v) == SumSeq([i \in 1..Len(v) |-> v[i] * v[i]])
SimVectors ==
    {v \in UNION {[1..n -> SimComps] : n \in 0..MaxDim} : IsSquare(SumSquares(v))}

NoSim == [v1 |-> <<>>, v2 |-> <<>>, ret |-> None, raised |-> FALSE,
          called |-> FALSE]

SimCall ==
    /\ ~sim.called
    /\ LET r == vector_similarity_call(sim.v1, sim.v2)
       IN  sim' = [sim EXCEPT !.ret = r.ret, !.raised = r.raised,
                              !.called = TRUE]
    /\ UNCHANGED <<now, nticks, cacheVars, histVars, thrVars, engineVars,
                   latestVars, ingestVars, moreVars>>

-----------------------------------------------------------------------------
(* A call of bm25_score on the terms of a query (line 162) and a document   *)

BmChars == {"i", "n", "N", " "}
MaxQueryLen == 2
MaxContentLen == 4
TextsUpTo(n) == UNION {[1..k -> BmChars] : k \in 0..n}

(* whether the division of line 131 is made with avg_doc_len = 0 *)
bm25_divides_by_zero(query_terms, document) ==
    LET doc_terms == ToSet(Split(Lower(document.content)))
    IN  query_terms # {} /\ Cardinality(doc_terms) = 0
          /\ \E term \in query_terms : term \in doc_terms

NoBm == [query |-> <<>>, content |-> <<>>, ret |-> None, raised |-> FALSE,
         called |-> FALSE]

BmCall ==
    /\ ~bm.called
    /\ LET query_terms == query_terms_of(bm.query)
           document == Document(bm.content, "US")
       IN  bm' = [bm EXCEPT !.ret = bm25_score(query_terms, document),
                            !.raised = bm25_divides_by_zero(query_terms, document),
                            !.called = TRUE]
    /\ UNCHANGED <<now, nticks, cacheVars, histVars, thrVars, engineVars,
                   latestVars, ingestVars, sim, kc, lab, riskVars, clientVars>>

-----------------------------------------------------------------------------
(* The cache keys of the three users of the cache layer *)

T_colon == <<":">>
T_x_US == <<"x", ":", "U", "S">>
T_x_None == <<"x", ":", "N", "o", "n", "e">>
T_x_US_1 == <<"x", ":", "U", "S", ":", "1">>
T_US_1 == <<"U", "S", ":", "1">>

KeyTexts == {<<>>, T_x, T_colon, T_x_US, T_x_None, T_x_US_1, T_US_1}
KeyJurisdictions ==
    {None, Some("US"), Some("EU"), Some("INDIA"), Some("ASIA"), Some("GLOBAL")}
KeyTopKs == {0 - 1, 1, 11}
KeyTriples ==
    [query : KeyTexts, jurisdiction : KeyJurisdictions, top_k : KeyTopKs]

(* compliance_analyzer.py line 21 *)
risk_cache_key(doc_id) == "risk:" \o doc_id

NoKc == [q1 |-> NoArg, q2 |-> NoArg, query1 |-> "", query2 |-> "",
         embedding |-> "", risk |-> "", called |-> FALSE]

(* the keys of query_hybrid_index for q1 and q2, of generate_embedding for  *)
(* the text of q1 and of analyze_document_risk for a document named as the  *)
(* text of q2                                                               *)
KeyCall ==
    /\ ~kc.called
    /\ kc' = [kc EXCEPT
                !.query1 = query_cache_key(kc.q1.query, kc.q1.jurisdiction,
                                           kc.q1.top_k),
                !.query2 = query_cache_key(kc.q2.query, kc.q2.jurisdiction,
                                           kc.q2.top_k),
                !.embedding = embedding_cache_key(kc.q1.query),
                !.risk = risk_cache_key(Str(kc.q2.query)),
                !.called = TRUE]
    /\ UNCHANGED <<now, nticks, cacheVars, histVars, thrVars, engineVars,
                   latestVars, ingestVars, sim, bm, lab, riskVars, clientVars>>

-----------------------------------------------------------------------------
(* get_risk_level_label next to the minimum-risk filter of                  *)
(* get_latest_documents                                                     *)

ScoreGrid == 100
LabelScores == {Rat(n, ScoreGrid) : n \in 0..ScoreGrid}

(* compliance_analyzer.py lines 188-199 *)
get_risk_level_label(risk_score) ==
    IF ~RatLess(risk_score, [n |-> 9, d |-> 10]) THEN "Critical"
    ELSE IF ~RatLess(risk_score, [n |-> 7, d |-> 10]) THEN "High"
    ELSE IF ~RatLess(risk_score, [n |-> 2, d |-> 5]) THEN "Medium"
    ELSE "Low"

NoLab == [score |-> Zero, label |-> "", passes |-> FALSE, called |-> FALSE]

(* the label of a score, and whether a document with that score passes the  *)
(* filter of get_latest_documents(min_risk=label)                           *)
LabelCall ==
    /\ ~lab.called
    /\ LET label == get_risk_level_label(lab.score)
           doc == DocumentFull(<<"t">>, T_in, "US", 1, <<>>, lab.score)
           arg == [jurisdiction |-> None, min_risk |-> Some(label),
                   search_query |-> None, limit |-> 10]
       IN  lab' = [lab EXCEPT !.label = label,
                              !.passes = latest_keeps(doc, arg),
                              !.called = TRUE]
    /\ UNCHANGED <<now, nticks, cacheVars, histVars, thrVars, engineVars,
                   latestVars, ingestVars, sim, bm, kc, riskVars, clientVars>>

InitPure == bm = NoBm /\ kc = NoKc /\ lab = NoLab

-----------------------------------------------------------------------------
(* Risk analysis: compliance_analyzer.py.  An analysis is the record        *)
(* [risk_score, risk_categories, key_findings, jurisdiction, summary].      *)

T_sec == <<"s", "e", "c">>
T_eu == <<"e", "u">>
T_india == <<"i", "n", "d", "i", "a">>
T_asean == <<"a", "s", "e", "a", "n">>
T_dollar == <<"d", "o", "l", "l", "a", "r">>
T_euro == <<"e", "u", "r", "o">>
T_rupee == <<"r", "u", "p", "e", "e">>
T_yen == <<"y", "e", "n">>
T_yuan == <<"y", "u", "a", "n">>
T_filing == <<"f", "i", "l", "i", "n", "g">>
T_sec_filing == <<"s", "e", "c", " ", "f", "i", "l", "i", "n", "g">>

(* a document of SHORT_LEN characters *)
LongText == [i \in 1..SHORT_LEN |-> "x"]

(* compliance_keywords.COMPLIANCE_KEYWORDS and RISK_LEVELS, in the order of *)
(* the dictionary: the entries that occur in the texts of the model         *)
COMPLIANCE_KEYWORDS ==
    <<[keyword |-> T_insider_trading, level |-> "high"],
      [keyword |-> T_filing, level |-> "low"]>>

RISK_LEVELS ==
    [high |-> [n |-> 4, d |-> 5], medium |-> [n |-> 1, d |-> 2],
     low |-> [n |-> 3, d |-> 10]]

(* lines 137-159: the number of terms of a list that occur in the content;  *)
(* of each list, the terms written over the characters of the model         *)
us_terms == {T_sec}
eu_terms == {T_eu}
india_terms == {T_india}
asia_terms == {T_asean}

TermCount(terms, content_lower) ==
    Cardinality({term \in terms : Contains(content_lower, term)})

(* lines 131-186 *)
categorize_by_jurisdiction(content) ==
    LET content_lower == Lower(content)
        us_count == TermCount(us_terms, content_lower)
        eu_count == TermCount(eu_terms, content_lower)
        india_count == TermCount(india_terms, content_lower)
        asia_count == TermCount(asia_terms, content_lower)
        counts == <<[j |-> "US", n |-> us_count], [j |-> "EU", n |-> eu_count],
                    [j |-> "INDIA", n |-> india_count],
                    [j |-> "ASIA", n |-> asia_count]>>
        max_count == CHOOSE m \in {counts[i].n : i \in 1..4} :
                        \A i \in 1..4 : counts[i].n <= m
        first == CHOOSE i \in 1..4 :
                    /\ counts[i].n = max_count
                    /\ \A k \in 1..(i - 1) : counts[k].n # max_count
    IN  IF max_count > 0 THEN counts[first].j
        ELSE IF Contains(content_lower, T_dollar) \/ Contains(content, <<"$">>)
             THEN "US"
        ELSE IF Contains(content_lower, T_euro) THEN "EU"
        ELSE IF Contains(content_lower, T_rupee) THEN "INDIA"
        ELSE IF Contains(content_lower, T_yen) \/ Contains(content_lower, T_yuan)
             THEN "ASIA"
        ELSE "GLOBAL"

(* lines 84-86: the entries of COMPLIANCE_KEYWORDS found in the content *)
RECURSIVE MatchesFrom(_, _)
MatchesFrom(i, content_lower) ==
    IF i > Len(COMPLIANCE_KEYWORDS) THEN <<>>
    ELSE LET e == COMPLIANCE_KEYWORDS[i]
             rest == MatchesFrom(i + 1, content_lower)
         IN  IF Contains(content_lower, Lower(e.keyword))
             THEN <<[keyword |-> e.keyword, risk |-> RISK_LEVELS[e.level]]>> \o rest
             ELSE rest

RECURSIVE RatSum(_)
RatSum(s) == IF s = <<>> THEN Zero ELSE RatAdd(s[1].risk, RatSum(Tail(s)))

RECURSIVE RatMax(_)
RatMax(s) ==
    IF s = <<>> THEN Zero
    ELSE LET m == RatMax(Tail(s))
         IN  IF RatLess(m, s[1].risk) THEN s[1].risk ELSE m

(* line 92: keyword.split()[0] if " " in keyword else keyword *)
category_of(keyword) ==
    IF Contains(keyword, <<" ">>) THEN Split(keyword)[1] ELSE keyword

(* lines 92-94: the categories, each once, in the order found *)
RECURSIVE categories_of(_)
categories_of(matches) ==
    IF matches = <<>> THEN <<>>
    ELSE LET before == categories_of(SubSeq(matches, 1, Len(matches) - 1))
             category == category_of(matches[Len(matches)].keyword)
         IN  IF category \in ToSet(before) THEN before
             ELSE Append(before, category)

(* lines 111-121: the summary, as the values its text is built from *)
summary_band(risk_score) ==
    IF RatLess([n |-> 7, d |-> 10], risk_score) THEN "high"
    ELSE IF RatLess([n |-> 2, d |-> 5], risk_score) THEN "moderate"
    ELSE "low"

(* lines 72-129 *)
simplified_risk_analysis(content) ==
    LET matches == MatchesFrom(1, Lower(content))
        keywords == [i \in 1..Len(matches) |-> matches[i].keyword]
        avg_risk == RatDiv(RatSum(matches), FromInt(Len(matches)))
        risk_score ==
            IF matches = <<>> THEN [n |-> 1, d |-> 10]
            ELSE RatAdd(RatMul(W_VECTOR, RatMax(matches)),
                        RatMul(W_KEYWORD, avg_risk))
    IN  [risk_score |-> risk_score,
         risk_categories |-> categories_of(matches),
         key_findings |-> keywords,
         jurisdiction |-> categorize_by_jurisdiction(content),
         summary |-> IF matches # <<>>
                     THEN [count |-> Len(matches), keywords |-> Take(keywords, 3),
                           band |-> summary_band(risk_score)]
                     ELSE [count |-> 0, keywords |-> <<>>, band |-> "none"]]

(* lines 34-59: the analysis the classifier answers for a content *)
Classifier(content) ==
    [risk_score |-> [n |-> 9, d |-> 10],
     risk_categories |-> <<T_insider_trading>>,
     key_findings |-> <<>>,
     jurisdiction |-> "US",
     summary |-> [count |-> Len(content), keywords |-> <<>>,
                  band |-> "classifier"]]

(* line 23: if cached_result *)
risk_cache_hit(cached_result) == cached_result # None

(* analyze_document_risk(doc_id, content): [c, ret, path, write];           *)
(* classifier_ok is whether the classifier answers this call                *)
analyze_document_risk(c0, up, t, doc_id, content, classifier_ok) ==
    LET cache_key == risk_cache_key(doc_id)
        g == get_cached_result(c0, up, t, cache_key)
        path == IF Len(content) < SHORT_LEN THEN "short"
                ELSE IF classifier_ok THEN "classifier" ELSE "fallback"
        result == IF path = "classifier" THEN Classifier(content)
                  ELSE simplified_risk_analysis(content)
        w == cache_result(g.c, up, t, cache_key, JsonDumps(result),
                          Some(DEFAULT_TTL))
    IN  IF risk_cache_hit(g.ret)
        THEN [c |-> g.c, ret |-> JsonLoads(g.ret), path |-> "hit",
              write |-> NoWrite]
        ELSE [c |-> w.c, ret |-> result, path |-> path,
              write |-> [key |-> cache_key, value |-> JsonDumps(result),
                         ttl |-> Some(DEFAULT_TTL), ok |-> w.ret, at |-> t]]

(* line 207: temp_<YYYYmmddHHMMSS>, the clock read to the second *)
temp_doc_id(t) == "temp_" \o ToString(t)

(* f"{risk_score:.2%}": the score in hundredths of a percent *)
Percent(risk_score) == ((risk_score.n * 20000) \div risk_score.d + 1) \div 2

(* ', '.join(risk_categories) *)
RECURSIVE JoinComma(_)
JoinComma(texts) ==
    IF texts = <<>> THEN <<>>
    ELSE IF Len(texts) = 1 THEN texts[1]
    ELSE texts[1] \o <<",", " ">> \o JoinComma(Tail(texts))

(* lines 213-227: the report built from an analysis *)
compliance_report(risk_analysis) ==
    [summary |-> risk_analysis.summary,
     detailed_analysis |->
        [level |-> get_risk_level_label(risk_analysis.risk_score),
         score |-> Percent(risk_analysis.risk_score),
         jurisdiction |-> risk_analysis.jurisdiction,
         categories |-> JoinComma(risk_analysis.risk_categories),
         findings |-> risk_analysis.key_findings],
     risk_data |->
        [score |-> risk_analysis.risk_score,
         jurisdiction |-> risk_analysis.jurisdiction,
         categories |-> risk_analysis.risk_categories]]

(* analyze_compliance(content): [c, doc_id, risk, ret] *)
analyze_compliance(c0, up, t, content, classifier_ok) ==
    LET doc_id == temp_doc_id(t)
        r == analyze_document_risk(c0, up, t, doc_id, content, classifier_ok)
    IN  [c |-> r.c, doc_id |-> doc_id, risk |-> r,
         ret |-> compliance_report(r.ret)]

RiskIds == {"A", "B"}
RiskContents == {T_in, T_insider_trading, T_sec_filing, LongText}

NoAnalysis == [risk_score |-> Zero, risk_categories |-> <<>>,
               key_findings |-> <<>>, jurisdiction |-> "",
               summary |-> [count |-> 0, keywords |-> <<>>, band |-> ""]]
NoExpect == [valid |-> FALSE, ret |-> NoAnalysis]
NoRiskCall == [doc_id |-> "", content |-> <<>>, ret |-> NoAnalysis,
               path |-> "none", write |-> NoWrite, expect |-> NoExpect,
               at |-> 0]
NoCompliance == [content |-> <<>>, ret |-> compliance_report(NoAnalysis),
                 called |-> FALSE]

(* history: the result an analysis of doc_id at time t is due, by the last  *)
(* result computed for that id less than DEFAULT_TTL seconds before         *)
RiskExpect(last, t, doc_id) ==
    IF doc_id \in DOMAIN last /\ t < last[doc_id].at + DEFAULT_TTL
    THEN [valid |-> TRUE, ret |-> last[doc_id].ret]
    ELSE NoExpect

(* history of one call of analyze_document_risk *)
RecordRisk(doc_id, content, r) ==
    /\ rcall' = [doc_id |-> doc_id, content |-> content, ret |-> r.ret,
                 path |-> r.path, write |-> r.write,
                 expect |-> RiskExpect(rlast, now, doc_id), at |-> now]
    /\ rlast' = IF r.path = "hit" THEN rlast
                ELSE Put(rlast, doc_id, [ret |-> r.ret, at |-> now])

(* a caller of analyze_document_risk(doc_id, content) *)
R_Call(doc_id, content, classifier_ok) ==
    /\ nrisk < MaxRiskCalls
    /\ LET r == analyze_document_risk(CacheState, redisUp, now, doc_id, content,
                                      classifier_ok)
       IN  /\ SetCacheState(r.c)
           /\ RecordRisk(doc_id, content, r)
    /\ nrisk' = nrisk + 1
    /\ startup' = StartupOf(startup, redisUp)
    /\ UNCHANGED <<now, nticks, redisUp, nflips, ncalls, lastCall, written,
                   thrVars, engineVars, latestVars, ingestVars, sim, pureVars,
                   acall, clientVars>>

(* a caller of analyze_compliance(content) *)
A_Call(content, classifier_ok) ==
    /\ nrisk < MaxRiskCalls
    /\ LET a == analyze_compliance(CacheState, redisUp, now, content,
                                   classifier_ok)
       IN  /\ SetCacheState(a.c)
           /\ RecordRisk(a.doc_id, content, a.risk)
           /\ acall' = [content |-> content, ret |-> a.ret, called |-> TRUE]
    /\ nrisk' = nrisk + 1
    /\ startup' = StartupOf(startup, redisUp)
    /\ UNCHANGED <<now, nticks, redisUp, nflips, ncalls, lastCall, written,
                   thrVars, engineVars, latestVars, ingestVars, sim, pureVars,
                   clientVars>>

InitRisk ==
    /\ rcall = NoRiskCall /\ acall = NoCompliance /\ rlast = EmptyMap
    /\ nrisk = 0

-----------------------------------------------------------------------------
(* Ingestion: data_ingestion.start_ingestion_pipeline,                      *)
(* stop_ingestion_pipeline and data_ingestion_thread, which hands every     *)
(* fetched document to vector_store.update_vector_index, has it analysed    *)
(* and raises an alert on a high risk score                                 *)

IngestIds == {"S1", "S2"}
Batches == {<<>>, <<"S1">>, <<"S2">>, <<"S1", "S2">>}
IngestThreads == 1..MaxStarts
Starters == {1, 2}

(* a fetched document: the fields the loop reads *)
FetchedDoc(id) ==
    [id |-> id, content |-> IF id = "S1" THEN T_insider_trading ELSE T_in]

(* update_vector_index(document_id, content): returns True and leaves the   *)
(* documents and document_embeddings maps as they are                       *)
update_vector_index(d, e, document_id, content) ==
    [docs |-> d, embs |-> e, ret |-> TRUE]

(* a call of update_vector_index: binding the arguments raises            *)
(* TypeError unless exactly the two positional parameters are given         *)
call_update_vector_index(d, e, args) ==
    IF Len(args) = 2
    THEN [docs |-> update_vector_index(d, e, args[1], args[2]).docs,
          embs |-> update_vector_index(d, e, args[1], args[2]).embs,
          raised |-> FALSE]
    ELSE [docs |-> d, embs |-> e, raised |-> TRUE]

(* lines 268, 278 and 338: risk_score >= 0.7 *)
is_high_risk(risk_score) == ~RatLess(risk_score, [n |-> 7, d |-> 10])

(* check_and_send_alerts(document, risk_analysis): [sent, ret]; sent is     *)
(* whether send_notification was called, notify_ok the success it reports   *)
check_and_send_alerts(risk_analysis, notify_ok) ==
    IF is_high_risk(risk_analysis.risk_score)
    THEN [sent |-> TRUE, ret |-> notify_ok]
    ELSE [sent |-> FALSE, ret |-> TRUE]

NoIngestLog == [handed |-> {}, analyzed |-> EmptyMap, alerts |-> {}]

(* lines 267-269 and 277-279: the analysis of a document is noted, and an   *)
(* alert raised on a high score; a is what analyze_document_risk returned   *)
alert_on(log, doc_id, a, notify_ok) ==
    [c |-> a.c,
     log |-> [log EXCEPT
                !.analyzed = Put(@, doc_id, a.ret.risk_score),
                !.alerts = IF is_high_risk(a.ret.risk_score)
                              /\ check_and_send_alerts(a.ret, notify_ok).sent
                           THEN @ \cup {doc_id} ELSE @]]

(* lines 263-269 and 273-279: the loop over the fetched documents, each     *)
(* handed over as update_vector_index(doc), then analysed, then alerted on; *)
(* [docs, embs, c, log, raised]                                             *)
RECURSIVE ingest_batch(_, _, _, _, _, _, _, _, _)
ingest_batch(d, e, c, up, t, batch, log, classifier_ok, notify_ok) ==
    IF batch = <<>>
    THEN [docs |-> d, embs |-> e, c |-> c, log |-> log, raised |-> FALSE]
    ELSE LET doc == FetchedDoc(batch[1])
             r == call_update_vector_index(d, e, <<doc>>)
             handed == [log EXCEPT !.handed = @ \cup {doc.id}]
         IN  IF r.raised
             THEN [docs |-> r.docs, embs |-> r.embs, c |-> c, log |-> handed,
                   raised |-> TRUE]
             ELSE LET seen == alert_on(handed, doc.id,
                                       analyze_document_risk(c, up, t, doc.id,
                                           doc.content, classifier_ok),
                                       notify_ok)
                  IN  ingest_batch(r.docs, r.embs, seen.c, up, t, Tail(batch),
                                   seen.log, classifier_ok, notify_ok)

Alive == {t \in IngestThreads : ipc[t] \in {"loop", "body", "sleep", "finally"}}
Unborn == {t \in IngestThreads : ipc[t] = "unborn"}
Launching == {s \in Starters : spc[s] = "launch"}
NoStart == [msg |-> "", alive |-> FALSE]

ingestFrame == <<now, nticks, ncalls, lastCall, written, thrVars, providerUp,
                 docOrder, nwrites, qVars, latestVars, sim, moreVars>>

(* start_ingestion_pipeline(), line 308: if not running *)
I_Start(s) ==
    /\ spc[s] = "idle"
    /\ running \/ Cardinality(Unborn) > Cardinality(Launching)
    /\ IF ~running
       THEN /\ spc' = [spc EXCEPT ![s] = "launch"]
            /\ sret' = [sret EXCEPT ![s] = [msg |-> "", alive |-> Alive # {}]]
       ELSE /\ spc' = spc
            /\ sret' = [sret EXCEPT ![s] =
                           [msg |-> "Pipeline is already running",
                            alive |-> Alive # {}]]
    /\ UNCHANGED <<running, ipc, ihanded, nfetches, ifetched, ianalyzed,
                   ialerts, iraised, cacheVars, startup, docs, embs, ingestFrame>>

(* lines 309-319: running = True; the thread is created and started *)
I_Launch(s) ==
    /\ spc[s] = "launch"
    /\ running' = TRUE
    /\ LET t == CHOOSE u \in Unborn : \A v \in Unborn : u <= v
       IN  ipc' = [ipc EXCEPT ![t] = "loop"]
    /\ spc' = [spc EXCEPT ![s] = "idle"]
    /\ sret' = [sret EXCEPT ![s].msg = "Pipeline started successfully"]
    /\ UNCHANGED <<ihanded, nfetches, ifetched, ianalyzed, ialerts, iraised,
                   cacheVars, startup, docs, embs, ingestFrame>>

(* stop_ingestion_pipeline(), lines 323-328 *)
I_Stop ==
    /\ running
    /\ running' = FALSE
    /\ UNCHANGED <<ipc, spc, sret, ihanded, nfetches, ifetched, ianalyzed,
                   ialerts, iraised, cacheVars, startup, docs, embs, ingestFrame>>

(* line 260: while running *)
I_Test(t) ==
    /\ ipc[t] = "loop"
    /\ ipc' = [ipc EXCEPT ![t] = IF running THEN "body" ELSE "finally"]
    /\ UNCHANGED <<running, spc, sret, ihanded, nfetches, ifetched, ianalyzed,
                   ialerts, iraised, cacheVars, startup, docs, embs, ingestFrame>>

(* lines 261-279: one iteration over the documents fetched, SEC filings     *)
(* and then news; an exception leaves the loop (lines 283-284)              *)
I_Iterate(t, batch, classifier_ok, notify_ok) ==
    /\ ipc[t] = "body"
    /\ nfetches < MaxFetches
    /\ nfetches' = nfetches + 1
    /\ LET r == ingest_batch(docs, embs, CacheState, redisUp, now, batch,
                             [handed |-> ihanded, analyzed |-> ianalyzed,
                              alerts |-> ialerts],
                             classifier_ok, notify_ok)
       IN  /\ docs' = r.docs
           /\ embs' = r.embs
           /\ SetCacheState(r.c)
           /\ startup' = IF r.c.client # client THEN StartupOf(startup, redisUp)
                                                ELSE startup
           /\ ihanded' = r.log.handed
           /\ ianalyzed' = r.log.analyzed
           /\ ialerts' = r.log.alerts
           /\ ifetched' = ifetched \cup ToSet(batch)
           /\ iraised' = IF r.raised THEN iraised \cup {t} ELSE iraised
           /\ ipc' = [ipc EXCEPT ![t] = IF r.raised THEN "finally" ELSE "sleep"]
    /\ UNCHANGED <<running, spc, sret, redisUp, nflips, ingestFrame>>

(* line 282: time.sleep(10) is over *)
I_Wake(t) ==
    /\ ipc[t] = "sleep"
    /\ ipc' = [ipc EXCEPT ![t] = "loop"]
    /\ UNCHANGED <<running, spc, sret, ihanded, nfetches, ifetched, ianalyzed,
                   ialerts, iraised, cacheVars, startup, docs, embs, ingestFrame>>

(* lines 285-286: finally: running = False; the thread ends *)
I_Finally(t) ==
    /\ ipc[t] = "finally"
    /\ running' = FALSE
    /\ ipc' = [ipc EXCEPT ![t] = "ended"]
    /\ UNCHANGED <<spc, sret, ihanded, nfetches, ifetched, ianalyzed, ialerts,
                   iraised, cacheVars, startup, docs, embs, ingestFrame>>

InitIngest ==
    /\ running = FALSE /\ ipc = [t \in IngestThreads |-> "unborn"]
    /\ spc = [s \in Starters |-> "idle"] /\ sret = [s \in Starters |-> NoStart]
    /\ ihanded = {} /\ nfetches = 0
    /\ ifetched = {} /\ ianalyzed = EmptyMap /\ ialerts = {} /\ iraised = {}

-----------------------------------------------------------------------------
(* get_redis_client statement by statement, under concurrent callers.  The  *)
(* module global holds a reference to a client object; every construction   *)
(* of redis.Redis or MockRedisClient makes a new object.                    *)

Callers == {1, 2}
ClientOps == {"client", "get", "set"}
ClientKey == "k1"
(* every caller writes a value of its own *)
ClientVal(g) == JsonDumps(<<g>>)
NoObject == 0

RedisObject == [kind |-> "redis", m |-> MockRedisClient_init]
MockObject == [kind |-> "mock", m |-> MockRedisClient_init]

NoSet == [value |-> None, at |-> 0, ok |-> FALSE, n |-> 0]
NoClientCall == [n |-> 0, op |-> "client", value |-> None, late |-> FALSE,
                 due |-> NoSet, may |-> {}]
NoLocal == [client |-> NoObject, ret |-> None]

(* history: the values a get may be served while set calls are under way *)
SetsUnderWay == {ccall[g].value : g \in {h \in Callers :
                     cpc[h] \notin {"idle", "done"} /\ ccall[h].op = "set"}}

clientFrame == <<now, nticks, redisUp, nflips, client, mockCache, mockExpiry,
                 histVars, thrVars, engineVars, latestVars, ingestVars, sim,
                 pureVars, riskVars>>

(* a caller enters get_redis_client(), get_cached_result(key) or            *)
(* cache_result(key, value), ttl 300                                        *)
C_Begin(g, op) ==
    /\ cpc[g] \in {"idle", "done"} /\ nclient < MaxClientCalls
    /\ nclient' = nclient + 1
    /\ cpc' = [cpc EXCEPT ![g] = "check"]
    /\ ccall' = [h \in Callers |->
                   IF h = g
                   THEN [n |-> nclient + 1, op |-> op,
                         value |-> IF op = "set" THEN ClientVal(g) ELSE None,
                         late |-> cfirst # NoObject,
                         due |-> clastset,
                         may |-> {clastset.value} \cup SetsUnderWay]
                   ELSE IF op = "set" /\ cpc[h] \notin {"idle", "done"}
                        THEN [ccall[h] EXCEPT !.may = @ \cup {ClientVal(g)}]
                        ELSE ccall[h]]
    /\ cloc' = [cloc EXCEPT ![g] = NoLocal]
    /\ UNCHANGED <<redisData, redis_client, objects, cpinged, cfirst,
                   clastset, cdown, clientFrame>>

(* line 21: if _redis_client is None *)
C_Check(g) ==
    /\ cpc[g] = "check"
    /\ cpc' = [cpc EXCEPT ![g] = IF redis_client = NoObject THEN "create"
                                                             ELSE "return"]
    /\ UNCHANGED <<redisData, redis_client, objects, ccall, cloc, cpinged,
                   cfirst, clastset, cdown, nclient, clientFrame>>

(* lines 23-31: _redis_client = redis.Redis(...); no connection is made yet *)
C_Create(g) ==
    /\ cpc[g] = "create"
    /\ objects' = Append(objects, RedisObject)
    /\ redis_client' = Len(objects) + 1
    /\ cpc' = [cpc EXCEPT ![g] = "ping"]
    /\ UNCHANGED <<redisData, ccall, cloc, cpinged, cfirst, clastset, cdown,
                   nclient, clientFrame>>

(* line 33: _redis_client.ping(), on whatever the global refers to by now;  *)
(* MockRedisClient.ping returns True (lines 80-81)                          *)
C_Ping(g) ==
    /\ cpc[g] = "ping"
    /\ LET target == objects[redis_client]
       IN  /\ cpc' = [cpc EXCEPT ![g] =
                        IF target.kind = "redis" /\ ~redisUp THEN "fallback"
                                                             ELSE "return"]
           /\ cpinged' = IF target.kind = "redis"
                         THEN cpinged \cup {ccall[g].n} ELSE cpinged
           /\ cdown' = (cdown /\ ~(target.kind = "redis" /\ redisUp))
    /\ UNCHANGED <<redisData, redis_client, objects, ccall, cloc, cfirst,
                   clastset, nclient, clientFrame>>

(* lines 35-42: _redis_client = MockRedisClient() *)
C_Fallback(g) ==
    /\ cpc[g] = "fallback"
    /\ objects' = Append(objects, MockObject)
    /\ redis_client' = Len(objects) + 1
    /\ cpc' = [cpc EXCEPT ![g] = "return"]
    /\ UNCHANGED <<redisData, ccall, cloc, cpinged, cfirst, clastset, cdown,
                   nclient, clientFrame>>

(* line 44: return _redis_client; lines 50, 63: client = get_redis_client() *)
C_Return(g) ==
    /\ cpc[g] = "return"
    /\ cloc' = [cloc EXCEPT ![g].client = redis_client]
    /\ cpc' = [cpc EXCEPT ![g] = IF ccall[g].op = "client" THEN "done"
                                                           ELSE "use"]
    /\ cfirst' = IF ccall[g].n = 1 THEN redis_client ELSE cfirst
    /\ UNCHANGED <<redisData, redis_client, objects, ccall, cpinged, clastset,
                   cdown, nclient, clientFrame>>

(* lines 52-57: client.get(key) on the local client *)
C_Get(g) ==
    /\ cpc[g] = "use" /\ ccall[g].op = "get"
    /\ LET obj == objects[cloc[g].client]
           r == IF obj.kind = "redis"
                THEN RedisGet(redisData, redisUp, now, ClientKey)
                ELSE [exc |-> FALSE,
                      val |-> MockRedisClient_get(obj.m, now, ClientKey)]
       IN  /\ cloc' = [cloc EXCEPT ![g].ret = IF r.exc THEN None ELSE r.val]
           /\ cdown' = (cdown /\ ~(obj.kind = "redis" /\ redisUp))
    /\ ccall' = [ccall EXCEPT ![g].due =
                    IF now < @.at + DEFAULT_TTL THEN @ ELSE NoSet]
    /\ cpc' = [cpc EXCEPT ![g] = "done"]
    /\ UNCHANGED <<redisData, redis_client, objects, cpinged, cfirst,
                   clastset, nclient, clientFrame>>

(* lines 65-70: client.set(key, value, ex=ttl) on the local client *)
C_Set(g) ==
    /\ cpc[g] = "use" /\ ccall[g].op = "set"
    /\ LET ref == cloc[g].client
           obj == objects[ref]
           r == RedisSet(redisData, redisUp, now, ClientKey, ccall[g].value,
                         Some(DEFAULT_TTL))
           ok == IF obj.kind = "redis" THEN ~r.exc ELSE TRUE
       IN  /\ IF obj.kind = "redis"
              THEN /\ redisData' = r.data
                   /\ objects' = objects
              ELSE /\ redisData' = redisData
                   /\ objects' = [objects EXCEPT ![ref].m =
                                     MockRedisClient_set(@, now, ClientKey,
                                                         ccall[g].value,
                                                         Some(DEFAULT_TTL))]
           /\ cloc' = [cloc EXCEPT ![g].ret = Some(ok)]
           /\ clastset' = IF ok THEN [value |-> ccall[g].value, at |-> now,
                                      ok |-> TRUE, n |-> ccall[g].n]
                                ELSE clastset
           /\ cdown' = (cdown /\ ~(obj.kind = "redis" /\ redisUp))
    /\ cpc' = [cpc EXCEPT ![g] = "done"]
    /\ UNCHANGED <<redis_client, ccall, cpinged, cfirst, nclient, clientFrame>>

InitClient ==
    /\ redis_client = NoObject /\ objects = <<>>
    /\ cpc = [g \in Callers |-> "idle"]
    /\ ccall = [g \in Callers |-> NoClientCall]
    /\ cloc = [g \in Callers |-> NoLocal]
    /\ cpinged = {} /\ cfirst = NoObject /\ clastset = NoSet
    /\ cdown = TRUE /\ nclient = 0

InitMore == InitPure /\ InitRisk /\ InitClient

-----------------------------------------------------------------------------
(* Inputs of the cache-layer calls *)
Keys == {"k1", "k2"}
CacheVals == {JsonDumps(<<0>>), JsonDumps(<<1>>)}
TTLs == {None, Some(1), Some(2)}
UnitStep == {1}

NoCall == [op |-> "none", key |-> "", val |-> None, ok |-> TRUE,
           raised |-> FALSE, fresh |-> "unknown"]

(* history: how the last cache_result on key stands at time t: "live" while *)
(* t is before its expiry instant, "expired" from that instant on, and      *)
(* "unknown" when the key was never written or was written without a TTL    *)
Freshness(w, t, key) ==
    IF key \in DOMAIN w /\ w[key].ttl # None
    THEN IF t < w[key].at + w[key].ttl[1] THEN "live" ELSE "expired"
    ELSE "unknown"

-----------------------------------------------------------------------------
(* Environment: the clock advances; the Redis server goes down / comes back *)

Tick(d) ==
    /\ nticks < MaxTicks
    /\ now' = now + d
    /\ nticks' = nticks + 1
    /\ UNCHANGED <<engineVars, cacheVars, histVars, thrVars, extVars>>

RedisFail ==
    /\ redisUp /\ nflips < MaxFlips
    /\ redisUp' = FALSE /\ nflips' = nflips + 1
    /\ UNCHANGED <<engineVars, now, nticks, client, redisData, mockCache, mockExpiry,
                   histVars, thrVars, extVars>>

RedisRecover ==
    /\ ~redisUp /\ nflips < MaxFlips
    /\ redisUp' = TRUE /\ nflips' = nflips + 1
    /\ UNCHANGED <<engineVars, now, nticks, client, redisData, mockCache, mockExpiry,
                   histVars, thrVars, extVars>>

-----------------------------------------------------------------------------
(* Callers of the cache layer (one call = one step of a single caller) *)

CallGet(key) ==
    /\ ncalls < MaxCalls
    /\ LET r == get_cached_result(CacheState, redisUp, now, key)
       IN  /\ SetCacheState(r.c)
           /\ lastCall' = [op |-> "get", key |-> key, val |-> r.ret, ok |-> TRUE,
                           raised |-> r.raised,
                           fresh |-> Freshness(written, now, key)]
    /\ ncalls' = ncalls + 1
    /\ startup' = StartupOf(startup, redisUp)
    /\ UNCHANGED <<engineVars, now, nticks, redisUp, nflips, written, thrVars, extVars>>

CallSet(key, value, ttl) ==
    /\ ncalls < MaxCalls
    /\ LET r == cache_result(CacheState, redisUp, now, key, value, ttl)
       IN  /\ SetCacheState(r.c)
           /\ lastCall' = [op |-> "set", key |-> key, val |-> value, ok |-> r.ret,
                           raised |-> r.raised, fresh |-> "unknown"]
           /\ written' = Put(written, key,
                             [val |-> value, at |-> now, ttl |-> ttl])
    /\ ncalls' = ncalls + 1
    /\ startup' = StartupOf(startup, redisUp)
    /\ UNCHANGED <<engineVars, now, nticks, redisUp, nflips, thrVars, extVars>>

(* get_redis_client().delete(key) on the fallback store *)
CallDelete(key) ==
    /\ ncalls < MaxCalls
    /\ LET c == get_redis_client(CacheState, redisUp)
       IN  /\ c.client = "mock"
           /\ SetCacheState([c EXCEPT !.mock = MockRedisClient_delete(c.mock, key)])
    /\ written' = Drop(written, key)
    /\ ncalls' = ncalls + 1
    /\ startup' = StartupOf(startup, redisUp)
    /\ UNCHANGED <<engineVars, now, nticks, redisUp, nflips, lastCall, thrVars, extVars>>

-----------------------------------------------------------------------------
(* Two threads calling MockRedisClient.get / set on one key with no lock:   *)
(* each dictionary access of lines 85-86 and 90-92 is one step.             *)
Threads == {1, 2}
ConcKey == "k1"
ConcTTLs == {Some(1), Some(2)}
NoArgs == [value |-> None, ex |-> None]
NoReturn == [ret |-> None, at |-> 0]
Mock == [cache |-> mockCache, expiry |-> mockExpiry]

(* a thread enters set(key, value, ex); every call writes its own value *)
T_CallSet(t, ex) ==
    /\ tpc[t] = "idle" /\ ncalls < MaxOps
    /\ tpc' = [tpc EXCEPT ![t] = "set_cache"]
    /\ targ' = [targ EXCEPT ![t] = [value |-> JsonDumps(<<ncalls>>), ex |-> ex]]
    /\ ncalls' = ncalls + 1
    /\ UNCHANGED <<engineVars, now, nticks, cacheVars, startup, lastCall, written, tloc, done, extVars>>

(* line 90: self.cache[key] = value *)
T_SetCache(t) ==
    /\ tpc[t] = "set_cache"
    /\ mockCache' = Put(mockCache, ConcKey, targ[t].value)
    /\ tpc' = [tpc EXCEPT ![t] = "set_expiry"]
    /\ UNCHANGED <<engineVars, now, nticks, redisUp, nflips, client, redisData, mockExpiry,
                   histVars, targ, tloc, done, extVars>>

(* lines 91-93: if ex is not None: self.expiry[key] = time.time() + ex *)
T_SetExpiry(t) ==
    /\ tpc[t] = "set_expiry"
    /\ mockExpiry' = IF targ[t].ex # None
                     THEN Put(mockExpiry, ConcKey, now + targ[t].ex[1])
                     ELSE mockExpiry
    /\ done' = Append(done, [value |-> targ[t].value, exp |-> now + targ[t].ex[1]])
    /\ tpc' = [tpc EXCEPT ![t] = "idle"]
    /\ UNCHANGED <<engineVars, now, nticks, redisUp, nflips, client, redisData, mockCache,
                   histVars, targ, tloc, extVars>>

(* a thread enters get(key) *)
T_CallGet(t) ==
    /\ tpc[t] = "idle" /\ ncalls < MaxOps
    /\ tpc' = [tpc EXCEPT ![t] = "get_in_cache"]
    /\ ncalls' = ncalls + 1
    /\ UNCHANGED <<engineVars, now, nticks, cacheVars, startup, lastCall, written,
                   targ, tloc, done, extVars>>

(* line 85: key in self.cache *)
T_GetInCache(t) ==
    /\ tpc[t] = "get_in_cache"
    /\ IF ConcKey \in DOMAIN mockCache
       THEN /\ tpc' = [tpc EXCEPT ![t] = "get_in_expiry"]
            /\ tloc' = tloc
       ELSE /\ tpc' = [tpc EXCEPT ![t] = "idle"]
            /\ tloc' = [tloc EXCEPT ![t] = [ret |-> None, at |-> now]]
    /\ UNCHANGED <<engineVars, now, nticks, cacheVars, histVars, targ, done, extVars>>

(* line 85: key not in self.expiry *)
T_GetInExpiry(t) ==
    /\ tpc[t] = "get_in_expiry"
    /\ tpc' = [tpc EXCEPT ![t] = IF ConcKey \notin DOMAIN mockExpiry
                                 THEN "get_read" ELSE "get_expiry"]
    /\ UNCHANGED <<engineVars, now, nticks, cacheVars, histVars, targ, tloc, done, extVars>>

(* line 85: self.expiry[key] > time.time() *)
T_GetExpiry(t) ==
    /\ tpc[t] = "get_expiry"
    /\ IF mockExpiry[ConcKey] > now
       THEN /\ tpc' = [tpc EXCEPT ![t] = "get_read"]
            /\ tloc' = tloc
       ELSE /\ tpc' = [tpc EXCEPT ![t] = "idle"]
            /\ tloc' = [tloc EXCEPT ![t] = [ret |-> None, at |-> now]]
    /\ UNCHANGED <<engineVars, now, nticks, cacheVars, histVars, targ, done, extVars>>

(* line 86: return self.cache[key] *)
T_GetRead(t) ==
    /\ tpc[t] = "get_read"
    /\ tloc' = [tloc EXCEPT ![t] = [ret |-> mockCache[ConcKey], at |-> now]]
    /\ tpc' = [tpc EXCEPT ![t] = "idle"]
    /\ UNCHANGED <<engineVars, now, nticks, cacheVars, histVars, targ, done, extVars>>

-----------------------------------------------------------------------------
InitCache ==
    /\ now = 0 /\ nticks = 0
    /\ redisUp \in BOOLEAN /\ nflips = 0
    /\ client = "unset"
    /\ redisData = EmptyMap
    /\ mockCache = EmptyMap /\ mockExpiry = EmptyMap
    /\ ncalls = 0 /\ startup = "none" /\ lastCall = NoCall /\ written = EmptyMap

InitThreads ==
    /\ tpc = [t \in Threads |-> "idle"]
    /\ targ = [t \in Threads |-> NoArgs]
    /\ tloc = [t \in Threads |-> NoReturn]
    /\ done = <<>>

(* The cache layer under a single caller *)
InitRest == InitLatest /\ InitIngest /\ sim = NoSim /\ InitMore

InitCacheLayer ==
    InitCache /\ InitThreads /\ InitEngine /\ providerUp = TRUE /\ InitRest

NextCacheLayer ==
    \/ \E d \in UnitStep : Tick(d)
    \/ RedisFail
    \/ RedisRecover
    \/ \E k \in Keys : CallGet(k)
    \/ \E k \in Keys, v \in CacheVals, ttl \in TTLs : CallSet(k, v, ttl)
    \/ \E k \in Keys : CallDelete(k)

SpecCache == InitCacheLayer /\ [][NextCacheLayer]_vars

(* The fallback store, installed at start-up, under two concurrent threads *)
InitConc ==
    /\ now = 0 /\ nticks = 0
    /\ redisUp = FALSE /\ nflips = 0
    /\ client = "mock"
    /\ redisData = EmptyMap
    /\ mockCache = EmptyMap /\ mockExpiry = EmptyMap
    /\ ncalls = 0 /\ startup = "down" /\ lastCall = NoCall /\ written = EmptyMap
    /\ InitThreads /\ InitEngine /\ providerUp = TRUE /\ InitRest

NextConc ==
    \/ \E d \in UnitStep : Tick(d)
    \/ \E t \in Threads, ex \in ConcTTLs : T_CallSet(t, ex)
    \/ \E t \in Threads : T_SetCache(t)
    \/ \E t \in Threads : T_SetExpiry(t)
    \/ \E t \in Threads : T_CallGet(t)
    \/ \E t \in Threads : T_GetInCache(t)
    \/ \E t \in Threads : T_GetInExpiry(t)
    \/ \E t \in Threads : T_GetExpiry(t)
    \/ \E t \in Threads : T_GetRead(t)

SpecConc == InitConc /\ [][NextConc]_vars

(* The query engine over the Document Store: a caller of                    *)
(* query_hybrid_index and concurrent writers of the store; the two external *)
(* services are up or down for the whole run                                *)
DocValues == {Document(T_in, "US"), Document(T_in, "EU"), Document(T_tin_in, "US")}
ScanFilters == {None, Some(""), Some("US")}

Init ==
    InitCache /\ InitThreads /\ InitEngine /\ providerUp \in BOOLEAN /\ InitRest

Next ==
    \/ \E id \in DocIds, doc \in DocValues : Upsert(id, doc)
    \/ \E id \in DocIds, v \in EmbVals : SetEmbedding(id, v)
    \/ \E q \in QueryTexts, j \in ScanFilters, k \in TopKs :
          nqueries < MaxScans /\ Q_Start(q, j, k)
    \/ Q_Embed
    \/ Q_List
    \/ Q_ReadDoc
    \/ Q_ReadEmb
    \/ Q_Finish

(* the store and one query, the Redis server answering throughout *)
InitStore == Init /\ redisUp = TRUE

Spec == InitStore /\ [][Next]_vars

(* Repeated queries against the cache: the clock advances, the Redis server *)
(* and the embedding provider go down and come back, one document is        *)
(* ingested                                                                 *)
QuerySteps == {1, QUERY_TTL - 1}
RepeatFilters == {None, Some("None")}

NextRepeat ==
    \/ \E d \in QuerySteps : Tick(d)
    \/ RedisFail
    \/ RedisRecover
    \/ ProviderFail
    \/ ProviderRecover
    \/ Upsert("A", Document(T_in, "US"))
    \/ SetEmbedding("A", <<1, 0>>)
    \/ \E j \in RepeatFilters : nqueries < MaxQueries /\ Q_Start(T_in, j, 1)
    \/ Q_Embed
    \/ Q_List
    \/ Q_ReadDoc
    \/ Q_ReadEmb
    \/ Q_Finish

SpecRepeat == Init /\ [][NextRepeat]_vars

(* Calls of vector_similarity on vectors of up to MaxDim components *)
InitSim ==
    /\ InitCache /\ redisUp = TRUE /\ InitThreads /\ InitEngine
    /\ providerUp = TRUE /\ InitLatest /\ InitIngest /\ InitMore
    /\ sim \in {[NoSim EXCEPT !.v1 = a, !.v2 = b] : a \in SimVectors, b \in SimVectors}

NextSim == SimCall

SpecSim == InitSim /\ [][NextSim]_vars

(* Calls of the pure functions: everything else stays in its initial state *)
InitBase ==
    /\ InitCache /\ redisUp = TRUE /\ InitThreads /\ InitEngine
    /\ providerUp = TRUE /\ InitLatest /\ InitIngest /\ sim = NoSim
    /\ InitRisk /\ InitClient

(* bm25_score on every query of up to MaxQueryLen characters and every      *)
(* content of up to MaxContentLen characters                                *)
InitBm25 ==
    /\ InitBase /\ kc = NoKc /\ lab = NoLab
    /\ bm \in {[NoBm EXCEPT !.query = q, !.content = c] :
                  q \in TextsUpTo(MaxQueryLen), c \in TextsUpTo(MaxContentLen)}

NextBm25 == BmCall

SpecBm25 == InitBm25 /\ [][NextBm25]_vars

(* the cache keys of every two argument triples of query_hybrid_index *)
InitKeys ==
    /\ InitBase /\ bm = NoBm /\ lab = NoLab
    /\ kc \in {[NoKc EXCEPT !.q1 = a, !.q2 = b] : a \in KeyTriples, b \in KeyTriples}

NextKeys == KeyCall

SpecKeys == InitKeys /\ [][NextKeys]_vars

(* the label and the filter on every score of the grid *)
InitLabel ==
    /\ InitBase /\ bm = NoBm /\ kc = NoKc
    /\ lab \in {[NoLab EXCEPT !.score = s] : s \in LabelScores}

NextLabel == LabelCall

SpecLabel == InitLabel /\ [][NextLabel]_vars

(* Callers of analyze_document_risk and analyze_compliance, one call after  *)
(* the other, while the clock advances and the Redis server goes down and   *)
(* comes back; the classifier answers a call or fails it                    *)
NextRisk ==
    \/ \E d \in QuerySteps : Tick(d)
    \/ RedisFail
    \/ RedisRecover
    \/ \E id \in RiskIds, c \in RiskContents, ok \in BOOLEAN : R_Call(id, c, ok)
    \/ \E c \in RiskContents, ok \in BOOLEAN : A_Call(c, ok)

InitRiskLayer == Init /\ providerUp = TRUE

SpecRisk == InitRiskLayer /\ [][NextRisk]_vars

(* Concurrent callers of the cache layer from the first call of the        *)
(* process on, the server up or down                                        *)
ClientSteps == {DEFAULT_TTL}

InitClientLayer == Init /\ providerUp = TRUE

NextClient ==
    \/ \E d \in ClientSteps : Tick(d)
    \/ RedisFail
    \/ RedisRecover
    \/ \E g \in Callers, op \in ClientOps : C_Begin(g, op)
    \/ \E g \in Callers : C_Check(g)
    \/ \E g \in Callers : C_Create(g)
    \/ \E g \in Callers : C_Ping(g)
    \/ \E g \in Callers : C_Fallback(g)
    \/ \E g \in Callers : C_Return(g)
    \/ \E g \in Callers : C_Get(g)
    \/ \E g \in Callers : C_Set(g)

SpecClient == InitClientLayer /\ [][NextClient]_vars

(* The ingestion thread next to writers of the Document Store *)
NextIngest ==
    \/ \E s \in Starters : I_Start(s)
    \/ \E s \in Starters : I_Launch(s)
    \/ I_Stop
    \/ \E t \in IngestThreads : I_Test(t)
    \/ \E t \in IngestThreads, batch \in Batches, ok \in BOOLEAN, sent \in BOOLEAN :
          I_Iterate(t, batch, ok, sent)
    \/ \E t \in IngestThreads : I_Wake(t)
    \/ \E t \in IngestThreads : I_Finally(t)
    \/ Upsert("A", Document(T_in, "US"))
    \/ SetEmbedding("A", <<1, 0>>)

InitPipeline == Init /\ redisUp = TRUE /\ providerUp = TRUE

SpecIngest == InitPipeline /\ [][NextIngest]_vars

(* The latest-documents listing next to writers of the Document Store *)
Risk(n, d) == [n |-> n, d |-> d]
LatestDocs ==
    {DocumentFull(<<"t">>, T_in, "US", 1, <<>>, Risk(4, 5)),
     DocumentFull(<<"t">>, T_in, "EU", 2, <<T_X>>, Risk(1, 10)),
     DocumentFull(T_X, T_tin_in, "US", 3, <<>>, Risk(3, 4))}
RiskUpdates == {Risk(1, 10)}
LatestJurisdictions == {None, Some("US")}
MinRisks == {None, Some("Low"), Some("Medium"), Some("High"), Some("Critical")}
Searches == {None, Some(T_x)}
Limits == {1, 2}

InitQuiet == Init /\ redisUp = TRUE /\ providerUp = TRUE

NextLatest ==
    \/ \E id \in DocIds, doc \in LatestDocs : Upsert(id, doc)
    \/ \E id \in DocIds, r \in RiskUpdates : SetRisk(id, r)
    \/ \E j \in LatestJurisdictions, m \in MinRisks, q \in Searches, n \in Limits :
          L_Start(j, m, q, n)
    \/ L_List
    \/ L_ReadDoc
    \/ L_Sort

SpecLatest == InitQuiet /\ [][NextLatest]_vars

(* The two-document scenario: documents A and B are ingested in either      *)
(* order, and one caller runs queries and listings one after the other      *)
DocA == DocumentFull(<<"t">>, T_insider_trading_violation, "US", 1, <<>>, Risk(4, 5))
DocB == DocumentFull(<<"t">>, T_routine_quarterly_filing, "EU", 2, <<>>, Risk(1, 10))
ScenarioQueries == {T_insider_trading, <<>>}

NextScenario ==
    \/ Upsert("A", DocA)
    \/ Upsert("B", DocB)
    \/ SetEmbedding("A", <<1, 0>>)
    \/ SetEmbedding("B", <<0, 1>>)
    \/ \E q \in ScenarioQueries :
          nqueries < MaxScans /\ lpc \in {"idle", "done"} /\ Q_Start(q, None, 1)
    \/ Q_Embed
    \/ Q_List
    \/ Q_ReadDoc
    \/ Q_ReadEmb
    \/ Q_Finish
    \/ qpc \in {"idle", "done"} /\ L_Start(None, None, None, 1)
    \/ L_List
    \/ L_ReadDoc
    \/ L_Sort

SpecScenario == Init /\ [][NextScenario]_vars

-----------------------------------------------------------------------------
(* C1: in the fallback store, a key last written by set(key, v, ex=ttl) at  *)
(* time t0 reads as v at every time before t0+ttl and as absent at every    *)
(* time from t0+ttl on: get never returns a value past its expiry.          *)
C1_MockTTL ==
    client = "mock" =>
        /\ \A k \in DOMAIN written :
              LET got == MockRedisClient_get(Mock, now, k)
                  f == Freshness(written, now, k)
              IN  /\ f = "live" => got = written[k].val
                  /\ f = "expired" => got = None
        /\ (lastCall.op = "get" /\ lastCall.fresh = "expired")
              => lastCall.val = None

C1_Witness ==
    /\ client = "mock"
    /\ lastCall.op = "get" /\ lastCall.fresh = "expired" /\ lastCall.val = None
    /\ lastCall.key \in DOMAIN mockCache

(* C2: when the server is unreachable at the first get_redis_client, every   *)
(* later cache_result returns True, every get_cached_result of a key whose   *)
(* last write has not expired returns the value written, and no call raises. *)
C2_FallbackServes ==
    startup = "down" =>
        /\ client = "mock"
        /\ ~lastCall.raised
        /\ lastCall.op = "set" => lastCall.ok
        /\ (lastCall.op = "get" /\ lastCall.fresh = "live"
              /\ lastCall.key \in DOMAIN written)
             => lastCall.val = written[lastCall.key].val

C2_Witness ==
    /\ startup = "down" /\ redisUp
    /\ lastCall.op = "get" /\ lastCall.fresh = "live" /\ lastCall.val # None

(* C3: whatever failures the backing store has had, a get_cached_result of a *)
(* key whose last cache_result(k, v, ttl) has not expired returns v.         *)
C3_DegradesOnAnyFailure ==
    (lastCall.op = "get" /\ lastCall.fresh = "live"
       /\ lastCall.key \in DOMAIN written)
      => lastCall.val = written[lastCall.key].val

(* C4: whatever the interleaving of concurrent set and get calls on one key *)
(* of the fallback store, once no set is in progress the stored value and    *)
(* expiry are those written by one single set call, and a get never returns  *)
(* a value that had expired, by the TTL of the set that wrote it, when the   *)
(* get returned.                                                             *)
SetInProgress == \E t \in Threads : tpc[t] \in {"set_cache", "set_expiry"}

C4_LastWriterWins ==
    /\ (~SetInProgress /\ done # <<>>) =>
          \E i \in DOMAIN done :
              /\ mockCache[ConcKey] = done[i].value
              /\ mockExpiry[ConcKey] = done[i].exp
    /\ \A t \in Threads : \A i \in DOMAIN done :
          (tloc[t].ret # None /\ tloc[t].ret = done[i].value)
             => done[i].exp > tloc[t].at

-----------------------------------------------------------------------------
(* history: the entry the backend in use stores under key *)
Stored(c, key) ==
    IF c.client = "mock"
    THEN IF key \in DOMAIN c.mock.cache /\ key \in DOMAIN c.mock.expiry
         THEN [val |-> c.mock.cache[key], exp |-> c.mock.expiry[key]]
         ELSE [val |-> None, exp |-> NoExpiry]
    ELSE IF key \in DOMAIN c.redisData THEN c.redisData[key]
         ELSE [val |-> None, exp |-> NoExpiry]

QueryKey == query_cache_key(qarg.query, qarg.jurisdiction, qarg.top_k)
Returned == qpc = "done"
Computed == qpc = "done" /\ ~qhit

(* C5: a call that finds an unexpired entry under its cache key (served by  *)
(* a backend that answers) returns the cached sequence and has done nothing *)
(* else: no embedding, no read of the store, no scoring, no cache write,    *)
(* whatever the store holds by then.                                        *)
C5_CacheHit ==
    qheld.held =>
        /\ Returned /\ qhit
        /\ qret = JsonLoads(qheld.value)
        /\ qfx = {}
        /\ qwrite = NoWrite

C5_Witness ==
    /\ Returned /\ qheld.held /\ qret = <<>>
    /\ qarg.jurisdiction = None /\ "A" \in DOMAIN embs

(* C6: a call that misses has, when it returns, written the sequence it     *)
(* returns under its key with TTL 300: the cache stores it with expiry      *)
(* now+300; and a repeat of the query less than 300 seconds after that      *)
(* write, with a working cache, returns the same sequence.                  *)
C6_CachePopulation ==
    /\ Computed =>
          /\ qwrite.key = QueryKey
          /\ qwrite.value = JsonDumps(qret)
          /\ qwrite.ttl = Some(QUERY_TTL)
          /\ Stored(CacheState, QueryKey)
                = [val |-> JsonDumps(qret), exp |-> qwrite.at + QUERY_TTL]
    /\ (Returned /\ qexpect.valid) => (qhit /\ qret = qexpect.ret)
    /\ qexpect.valid => qpc \in {"idle", "done"}

(* C7: whenever a jurisdiction filter is set, every record returned has     *)
(* that jurisdiction, on the computed path and on the cache-hit path.       *)
C7_JurisdictionExclusive ==
    (Returned /\ JurTruthy(qarg.jurisdiction)) =>
        \A i \in DOMAIN qret : qret[i].jurisdiction = qarg.jurisdiction[1]

(* C8: a document whose embedding was absent when the query read it is not  *)
(* in the result: every record collected or returned on the computed path   *)
(* belongs to a document whose embedding was present when it was read.      *)
C8_NoEmbeddingSkipped ==
    /\ \A i \in DOMAIN qres :
          qres[i].id \in DOMAIN qseen /\ qseen[qres[i].id]
    /\ Computed =>
          \A i \in DOMAIN qret :
              qret[i].id \in DOMAIN qseen /\ qseen[qret[i].id]

C8_Witness ==
    /\ Computed /\ qret # <<>>
    /\ \E id \in DOMAIN qseen :
          /\ ~qseen[id] /\ id \in DOMAIN embs
          /\ \A i \in DOMAIN qret : qret[i].id # id

(* the documents a query with the arguments qarg has to rank, by the store  *)
(* as it stands: those passing the jurisdiction filter that have an         *)
(* embedding                                                                *)
Eligible ==
    {id \in DOMAIN docs :
        /\ id \in DOMAIN embs
        /\ JurTruthy(qarg.jurisdiction)
              => docs[id].jurisdiction = qarg.jurisdiction[1]}

ScoreOf(id) ==
    result_record(id, docs[id], qemb, embs[id], query_terms_of(qarg.query)).score

ReturnedIds == {qret[i].id : i \in DOMAIN qret}

(* C9: on a miss (no store write since the call started) the call returns   *)
(* min(top_k, n) records of distinct eligible documents, n the number of    *)
(* eligible documents, in non-increasing order of score, and no eligible    *)
(* document left out has a score greater than a returned one.               *)
C9_TopK ==
    (Computed /\ qstable /\ qarg.top_k >= 0) =>
        /\ Len(qret) = Min(qarg.top_k, Cardinality(Eligible))
        /\ ReturnedIds \subseteq Eligible
        /\ Cardinality(ReturnedIds) = Len(qret)
        /\ \A i \in DOMAIN qret : qret[i].score = ScoreOf(qret[i].id)
        /\ \A i \in 1..(Len(qret) - 1) : ~RatLess(qret[i].score, qret[i + 1].score)
        /\ \A id \in Eligible \ ReturnedIds : \A i \in DOMAIN qret :
              ~RatLess(qret[i].score, ScoreOf(id))

C9_Witness ==
    /\ Computed /\ qstable /\ qarg.top_k = 1 /\ Len(qret) = 1
    /\ Cardinality(Eligible) = 2
    /\ docOrder[1] # qret[1].id
    /\ RatLess(ScoreOf(docOrder[1]), qret[1].score)

(* the order of document ids: "A" < "B" *)
IdLess(a, b) == a = "A" /\ b = "B"

(* C10: of two returned records with equal score, the one with the smaller  *)
(* document id comes first, whatever the insertion order of the documents.  *)
C10_TieBreakById ==
    Returned =>
        \A i \in DOMAIN qret : \A j \in DOMAIN qret :
            (i < j /\ qret[i].score = qret[j].score)
               => IdLess(qret[i].id, qret[j].id)

-----------------------------------------------------------------------------
(* the records of the call in progress or just finished on the computed path *)
Collected == IF Computed THEN qret ELSE IF qpc \in {"doc", "emb"} THEN qres ELSE <<>>

(* 10 * score = 7 * v + 3 * k, over the integers *)
IsWeightedSum(score, v, k) ==
    score.n * (10 * v.d * k.d) = score.d * (7 * v.n * k.d + 3 * k.n * v.d)

(* C11: every record produced on the computed path has                      *)
(* score = 0.7 * vector_similarity(query_embedding, doc_embedding)          *)
(*       + 0.3 * bm25_score(query_terms, doc), and nothing else.            *)
C11_CombinedScore ==
    \A i \in DOMAIN Collected :
        LET r == Collected[i]
        IN  /\ r.id \in DOMAIN docs /\ r.id \in DOMAIN embs
            /\ IsWeightedSum(r.score,
                             vector_similarity(qemb, embs[r.id]),
                             bm25_score(query_terms_of(qarg.query), docs[r.id]))

C11_Witness ==
    /\ Computed /\ qret # <<>>
    /\ LET v == vector_similarity(qemb, embs[qret[1].id])
           k == bm25_score(query_terms_of(qarg.query), docs[qret[1].id])
       IN  v # Zero /\ k # Zero /\ v # k

(* C12: vector_similarity returns exactly 0 whenever one of the two vectors *)
(* has zero magnitude (all components zero, or no component), whatever the  *)
(* lengths of the two, and never divides by zero.                           *)
AllZero(v) == \A i \in DOMAIN v : v[i] = 0

C12_ZeroMagnitude ==
    sim.called =>
        /\ ~sim.raised
        /\ (AllZero(sim.v1) \/ AllZero(sim.v2)) => sim.ret = Zero

C12_Witness ==
    /\ sim.called /\ sim.v1 = <<0, 0>> /\ sim.v2 = <<4>> /\ sim.ret = Zero

C14_EmptyQuery ==
    (Returned /\ qarg.query = <<>>) => qret = <<>>

(* the threshold of a risk level, as a fraction *)
Threshold(level) ==
    CASE level = "Low" -> [n |-> 25, d |-> 100]
      [] level = "Medium" -> [n |-> 50, d |-> 100]
      [] level = "High" -> [n |-> 75, d |-> 100]
      [] level = "Critical" -> [n |-> 90, d |-> 100]

RiskLevels == {"Low", "Medium", "High", "Critical"}
Listed == lpc = "done"
ListingRecords == IF Listed THEN lret ELSE lres

(* C15: a listing with min_risk one of Low, Medium, High, Critical holds no *)
(* record whose risk_score is below 0.25, 0.5, 0.75, 0.9 respectively.      *)
C15_MinRisk ==
    (larg.min_risk # None /\ larg.min_risk[1] \in RiskLevels) =>
        \A i \in DOMAIN ListingRecords :
            LET r == ListingRecords[i].risk_score
                t == Threshold(larg.min_risk[1])
            IN  r.n * t.d >= t.n * r.d

C15_Witness ==
    /\ Listed /\ larg.min_risk = Some("High")
    /\ larg.jurisdiction = None /\ larg.search_query = None /\ larg.limit = 2
    /\ Len(lret) = 1 /\ lret[1].risk_score = [n |-> 3, d |-> 4]
    /\ Cardinality(DOMAIN docs) = 2 /\ nwrites = lsnap

(* the documents that pass the filters of the listing *)
Passing == {id \in DOMAIN docs : latest_keeps(docs[id], larg)}
ListedIds == {lret[i].id : i \in DOMAIN lret}

(* C16: a listing (no store write since it started) returns                 *)
(* min(limit, n) records of distinct documents that pass the filters, n the *)
(* number of such documents, newest timestamp first, and no passing         *)
(* document left out is newer than a returned one.                          *)
C16_LatestOrder ==
    (Listed /\ nwrites = lsnap) =>
        /\ Len(lret) = Min(larg.limit, Cardinality(Passing))
        /\ ListedIds \subseteq Passing
        /\ Cardinality(ListedIds) = Len(lret)
        /\ \A i \in DOMAIN lret : lret[i] = latest_record(lret[i].id, docs[lret[i].id])
        /\ \A i \in 1..(Len(lret) - 1) :
              docs[lret[i].id].timestamp >= docs[lret[i + 1].id].timestamp
        /\ \A id \in Passing \ ListedIds : \A i \in DOMAIN lret :
              docs[id].timestamp <= docs[lret[i].id].timestamp

C16_Witness ==
    /\ Listed /\ nwrites = lsnap /\ larg.limit = 1 /\ Len(lret) = 1
    /\ Cardinality(Passing) = 2
    /\ larg.search_query = Some(T_x)
    /\ docOrder[1] # lret[1].id
    /\ docs[docOrder[1]].timestamp < docs[lret[1].id].timestamp

(* C17: with A ("insider trading violation", US, [1,0]) and B ("routine     *)
(* quarterly filing", EU, [0,1]) in the store, the query "insider trading"  *)
(* embedded as [1,0], no filter, top_k = 1, computed on a miss, returns     *)
(* exactly one record, that of A.                                           *)
ScenarioStore ==
    /\ DOMAIN docs = {"A", "B"} /\ docs["A"] = DocA /\ docs["B"] = DocB
    /\ DOMAIN embs = {"A", "B"} /\ embs["A"] = <<1, 0>> /\ embs["B"] = <<0, 1>>

ScenarioCall ==
    /\ Computed /\ qstable /\ ScenarioStore
    /\ qarg = [query |-> T_insider_trading, jurisdiction |-> None, top_k |-> 1]
    /\ qemb = <<1, 0>>

C17_Scenario ==
    ScenarioCall => (Len(qret) = 1 /\ qret[1].id = "A")

C17_Witness ==
    /\ ScenarioCall /\ docOrder = <<"B", "A">>
    /\ Len(qret) = 1 /\ qret[1].id = "A"
    /\ qret[1].score = [n |-> 13, d |-> 10]

(* C18: once the ingestion thread has ended, every document it handed to    *)
(* update_vector_index is in the Document Store together with an embedding. *)
C18_IngestionStores ==
    (\E t \in IngestThreads : ipc[t] = "ended") =>
        \A id \in ihanded : id \in DOMAIN docs /\ id \in DOMAIN embs

IOStatements == {"get_cached_result", "generate_embedding", "cache_result"}
MapReads == {"list_ids", "get_document", "get_embedding", "sort_key"}

(* C19: no statement of query_hybrid_index or get_latest_documents that     *)
(* calls the embedding provider or the cache runs with a lock held, and a   *)
(* lock is held for a single read of a map only.                            *)
C19_NoLockAcrossIO ==
    \A e \in qlk \cup llk :
        /\ e.stmt \in IOStatements => e.held = {}
        /\ e.held # {} => (e.stmt \in MapReads /\ Cardinality(e.held) = 1)

C19_Witness ==
    /\ Computed /\ Listed
    /\ IOStatements \subseteq {e.stmt : e \in qlk}
    /\ \E e \in qlk : e.stmt = "get_embedding" /\ e.held = {"embeddings"}
    /\ \E e \in llk : e.stmt = "get_document" /\ e.held = {"documents"}

(* C20: every read of the documents map by query_hybrid_index and           *)
(* get_latest_documents is made with the documents lock held, and every     *)
(* read of document_embeddings with the embeddings lock held.               *)
C20_ReadsUnderLock ==
    \A e \in qlk \cup llk :
        /\ e.stmt \in {"list_ids", "get_document", "sort_key"}
              => "documents" \in e.held
        /\ e.stmt = "get_embedding" => "embeddings" \in e.held

(* C23: the keys of generate_embedding, query_hybrid_index and              *)
(* analyze_document_risk never coincide with one another, and two calls of  *)
(* query_hybrid_index with different (text, jurisdiction, top_k), the       *)
(* jurisdiction absent or one of the five codes and top_k an integer, never *)
(* build the same key.                                                      *)
C23_DisjointKeys ==
    kc.called =>
        /\ kc.embedding \notin {kc.query1, kc.query2, kc.risk}
        /\ kc.risk \notin {kc.query1, kc.query2}
        /\ kc.q1 # kc.q2 => kc.query1 # kc.query2

C23_Witness ==
    /\ kc.called
    /\ kc.q1 = [query |-> T_x_US, jurisdiction |-> None, top_k |-> 1]
    /\ kc.q2 = [query |-> T_x, jurisdiction |-> Some("US"), top_k |-> 1]
    /\ kc.query1 = "query:x:US:None:1" /\ kc.query2 = "query:x:US:1"
    /\ kc.risk = "risk:x"

RiskKey == risk_cache_key(rcall.doc_id)
RiskMiss == rcall.path \in {"short", "classifier", "fallback"}

(* C21: a call of analyze_document_risk that misses has, when it returns,   *)
(* stored the result it returns under risk:<doc_id> with a TTL of 300       *)
(* seconds, on each of its three paths; and a call for a doc_id whose last  *)
(* result was computed less than 300 seconds before returns that result,    *)
(* whatever its content.                                                    *)
C21_RiskCached ==
    /\ RiskMiss =>
          /\ rcall.write.key = RiskKey
          /\ rcall.write.value = JsonDumps(rcall.ret)
          /\ rcall.write.ttl = Some(300)
          /\ Stored(CacheState, RiskKey)
                = [val |-> JsonDumps(rcall.ret), exp |-> rcall.at + 300]
    /\ rcall.expect.valid => (rcall.path = "hit" /\ rcall.ret = rcall.expect.ret)

(* C28: the report analyze_compliance returns for a content is the report   *)
(* of an analysis of that content, by the classifier or by the keyword      *)
(* analysis, whatever was analysed before and whenever.                     *)
C28_ComplianceOfInput ==
    acall.called =>
        acall.ret \in {compliance_report(simplified_risk_analysis(acall.content)),
                       compliance_report(Classifier(acall.content))}

(* the term frequency of a term: the number of tokens of the content equal  *)
(* to it                                                                    *)
TokenFrequency(tokens, term) ==
    Cardinality({i \in DOMAIN tokens : tokens[i] = term})

(* tf * (k1 + 1) / (tf + k1 * 1) with k1 = 1.5 *)
Saturated(tf) == Rat(5 * tf, 2 * tf + 3)

RECURSIVE SumSaturated(_, _)
SumSaturated(terms, tokens) ==
    IF terms = {} THEN Zero
    ELSE LET term == CHOOSE x \in terms : TRUE
         IN  RatAdd(Saturated(TokenFrequency(tokens, term)),
                    SumSaturated(terms \ {term}, tokens))

(* C24: bm25_score is the sum, over the distinct lower-cased query terms    *)
(* that are tokens of the lower-cased content, of tf*(k1+1)/(tf+k1*norm)    *)
(* with k1 = 1.5 and norm = 1, tf the frequency of the term in the          *)
(* document; it is 0 for an empty query or an empty content and never       *)
(* divides by zero.                                                         *)
C24_LexicalRelevance ==
    bm.called =>
        LET tokens == Split(Lower(bm.content))
            terms == ToSet(Split(Lower(bm.query))) \cap ToSet(tokens)
        IN  /\ ~bm.raised
            /\ bm.ret = SumSaturated(terms, tokens)

(* C30: a score labelled L by get_risk_level_label passes the minimum-risk  *)
(* filter of get_latest_documents(min_risk=L).                              *)
C30_LabelPassesFilter ==
    lab.called => lab.passes

(* C27: when generate_embedding fails inside a query, the zero vector is    *)
(* not stored under the embedding key, the sequence computed from it is     *)
(* stored under the query key with expiry now+300, and a repeat of the      *)
(* query less than 300 seconds later, the provider back, returns that       *)
(* lexical-only sequence.                                                   *)
EmbeddingKey == embedding_cache_key(qarg.query)

C27_FallbackCached ==
    /\ "embedding_failed" \in qfx =>
          Stored(CacheState, EmbeddingKey).val # JsonDumps(ZeroVector)
    /\ (Computed /\ "embedding_failed" \in qfx) =>
          /\ qwrite.key = QueryKey
          /\ qwrite.ttl = Some(QUERY_TTL)
          /\ Stored(CacheState, QueryKey)
                = [val |-> JsonDumps(qret), exp |-> qwrite.at + QUERY_TTL]
    /\ (Returned /\ qexpect.fallback) => (qhit /\ qret = qexpect.last)
    /\ qexpect.fallback => qpc \in {"idle", "done"}

(* C22: the server is pinged only by the first call of get_redis_client;    *)
(* once that call has returned, every call begun later uses the client      *)
(* object it returned, and the module global keeps referring to it.         *)
C22_BackendSelectedOnce ==
    /\ cpinged \subseteq {1}
    /\ cfirst # NoObject => redis_client = cfirst
    /\ \A g \in Callers :
          (ccall[g].late /\ cloc[g].client # NoObject)
              => cloc[g].client = cfirst

(* C26: while the server has answered no caller, every client handed to a   *)
(* caller is one and the same fallback store, and a get begun after a       *)
(* cache_result completed returns, before expiry, the value written.        *)
C26_SingleFallbackStore ==
    cdown =>
        /\ \A g \in Callers :
              cloc[g].client # NoObject
                  => objects[cloc[g].client].kind = "mock"
        /\ \A g, h \in Callers :
              (cloc[g].client # NoObject /\ cloc[h].client # NoObject)
                  => cloc[g].client = cloc[h].client
        /\ \A g \in Callers :
              (cpc[g] = "done" /\ ccall[g].op = "get" /\ ccall[g].due.ok)
                  => cloc[g].ret \in ccall[g].may

(* C25: every document fetched by an iteration of the ingestion loop has    *)
(* been analysed, send_notification has been called for exactly the         *)
(* analysed documents with a risk score of at least 0.7, and a thread       *)
(* leaves the loop only because running became False.                       *)
C25_HighRiskAlerting ==
    /\ \A id \in ifetched : id \in DOMAIN ianalyzed
    /\ ialerts \subseteq DOMAIN ianalyzed
    /\ \A id \in DOMAIN ianalyzed :
          id \in ialerts <=> is_high_risk(ianalyzed[id])
    /\ iraised = {}

(* C29: at most one ingestion thread is alive at any time, and a call of    *)
(* start_ingestion_pipeline made while one is alive returns "Pipeline is    *)
(* already running".                                                        *)
C29_SingleIngestionThread ==
    /\ Cardinality(Alive) <= 1
    /\ \A s \in Starters :
          (sret[s].alive /\ sret[s].msg # "")
              => sret[s].msg = "Pipeline is already running"

====
